---- MODULE Spec2Model ----
(***************************************************************************)
(* Node Registry (store.Store) and Selection Engine (proxypool.ProxyPool)  *)
(* of easy_proxies.                                                        *)
(*                                                                         *)
(* The Go code stores *EnhancedNode pointers both in Store.nodeStates and  *)
(* in ProxyPool.nodes, so the two can reference the same object.  The      *)
(* model keeps the objects' fields in nodeStates[key] (the object the map  *)
(* currently points to) and lets every element of ProxyPool.nodes say      *)
(* whether it is that same object (shared = TRUE) or an object the map no  *)
(* longer points to (shared = FALSE, fields kept in obj).                  *)
(***************************************************************************)
EXTENDS Integers, Sequences, FiniteSets, TLC

VARIABLES
    nodeStates,      \* Store.nodeStates: key -> fields of the object stored (Absent if no entry)
    latencyConfig,   \* Store.latencyConfig
    mode,            \* ProxyPool.mode
    nodes,           \* ProxyPool.nodes: sequence of object references
    weights,         \* ProxyPool.weights: node name -> weight (0 = no entry)
    totalWeight,     \* ProxyPool.totalWeight
    currentIndex,    \* ProxyPool.currentIndex
    fallbackEnabled, \* ProxyPool.fallbackEnabled
    refreshed,       \* history: field values of ProxyPool.nodes as RefreshNodes read them
    seen,            \* history: nodes returned by the GetProxy calls of the current run
    mutations,       \* history: number of registry mutations made
    ret,             \* the last call and what it returned
    subscriptions,   \* Store.subscriptions: id -> record (NoSub if no entry)
    dataDir,         \* Store.dataDir ("" for a store without persistence)
    disk,            \* the file store.json of dataDir
    diskFaulty,      \* environment: whether os.WriteFile can fail
    storeMu,         \* Store.mu
    poolMu,          \* ProxyPool.mu
    calls,           \* the call each goroutine is in and how far it has got
    committed,       \* history: the registry as the mutating calls that returned leave it
    apiKey           \* ProxyPool.apiKey ("" for no authentication)

vars == <<nodeStates, latencyConfig, mode, nodes, weights, totalWeight,
          currentIndex, fallbackEnabled, refreshed, seen, mutations, ret,
          subscriptions, dataDir, disk, diskFaulty, storeMu, poolMu, calls, committed,
          apiKey>>

storeVars == <<nodeStates, latencyConfig>>

\* The subscriptions and the persistence of the Store
fileVars == <<subscriptions, dataDir, disk, diskFaulty>>

\* The locks and the calls in progress; they move only where the calls are taken step
\* by step (SpecLocks), the other specifications take each call as one step
lockVars == <<storeMu, poolMu, calls, committed>>
poolVars  == <<mode, nodes, weights, totalWeight, currentIndex, fallbackEnabled, apiKey>>

----------------------------------------------------------------------------
(* Bounds of the model *)

\* Sequential GetProxy calls explored (cap on ProxyPool.currentIndex)
MaxCursor == 1

----------------------------------------------------------------------------
(* Constants of store.go *)

NodeStatusEnabled     == "enabled"
NodeStatusDisabled    == "disabled"
NodeStatusBlacklisted == "blacklisted"
NodeStatuses == {NodeStatusEnabled, NodeStatusDisabled, NodeStatusBlacklisted}

LatencyLevelLow     == "low"
LatencyLevelMedium  == "medium"
LatencyLevelHigh    == "high"
LatencyLevelUnknown == "unknown"
LatencyLevels == {LatencyLevelLow, LatencyLevelMedium, LatencyLevelHigh, LatencyLevelUnknown}

PoolModeSequential   == "sequential"
PoolModeRandom       == "random"
PoolModeLatencyFirst == "latency_first"
PoolModeWeighted     == "weighted"
PoolModes == {PoolModeSequential, PoolModeRandom, PoolModeLatencyFirst, PoolModeWeighted}

DefaultLowThreshold    == 100
DefaultMediumThreshold == 300

ErrNone             == "ok"
ErrNodeNotFound     == "node not found"
ErrNoAvailableProxy == "no available proxy"
ErrSubscriptionNotFound == "subscription not found"
\* The error of a failed os.WriteFile
ErrWriteFile == "write store.json: input/output error"

----------------------------------------------------------------------------
(* Node records *)

\* EnhancedNode, the fields the registry and the engine read
EnhancedNode(name, uri, subID, subName, region, latency, level, status, available) ==
    [Name |-> name, URI |-> uri, SubscriptionID |-> subID, SubscriptionName |-> subName,
     Region |-> region, Latency |-> latency, LatencyLevel |-> level,
     Status |-> status, Available |-> available]

\* No entry in a map / a nil *EnhancedNode
Absent == EnhancedNode("", "", "", "", "", -1, "", "absent", FALSE)

\* Node keys of the model
NodeKeys == {"A", "B", "C", "D"}

\* The fixed descriptors (name, owning subscription, region) of the nodes fed to the registry
Descriptor(k) ==
    CASE k = "A" -> [sid |-> "s1", sname |-> "alpha",        region |-> "US"]
      [] k = "B" -> [sid |-> "",   sname |-> "subscription", region |-> "US"]
      [] k = "C" -> [sid |-> "s2", sname |-> "alpha",        region |-> "JP"]
      [] OTHER   -> [sid |-> "",   sname |-> "",             region |-> ""]

\* The rule with the low boundary itself counted as medium
ClassifyLatency_LowExclusive(latencyMs, cfg) ==
    IF latencyMs < 0 THEN LatencyLevelUnknown
    ELSE IF latencyMs < cfg.LowThreshold THEN LatencyLevelLow
    ELSE IF latencyMs <= cfg.MediumThreshold THEN LatencyLevelMedium
    ELSE LatencyLevelHigh

\* CalculateLatencyLevel's rule for a threshold pair
ClassifyLatency(latencyMs, cfg) ==
    IF latencyMs < 0 THEN LatencyLevelUnknown
    ELSE IF latencyMs <= cfg.LowThreshold THEN LatencyLevelLow
    ELSE IF latencyMs <= cfg.MediumThreshold THEN LatencyLevelMedium
    ELSE LatencyLevelHigh

\* Store.CalculateLatencyLevel
CalculateLatencyLevel(latencyMs) == ClassifyLatency(latencyMs, latencyConfig)

\* A node object as the callers of UpdateNodeState build it
NewNode(k, latency, status, available) ==
    EnhancedNode(k, "uri-" \o k, Descriptor(k).sid, Descriptor(k).sname, Descriptor(k).region,
                 latency, CalculateLatencyLevel(latency), status, available)

\* The key taken from the name alone
KeyOf_NameOnly(node) == node.Name

\* The key UpdateNodeState files a node under
KeyOf(node) == IF node.Name = "" THEN node.URI ELSE node.Name

----------------------------------------------------------------------------
(* Sequences *)

Range(s) == {s[i] : i \in 1..Len(s)}

\* All orders in which a Go map range can visit the set S
RECURSIVE Orders(_)
Orders(S) ==
    IF S = {} THEN {<<>>}
    ELSE UNION {{<<x>> \o p : p \in Orders(S \ {x})} : x \in S}

RECURSIVE SumSeq(_)
SumSeq(s) == IF Len(s) = 0 THEN 0 ELSE Head(s) + SumSeq(Tail(s))

----------------------------------------------------------------------------
(* Store: node state methods *)

\* The selectability test of the listing methods: enabled and available
Selectable(node) == node.Status = NodeStatusEnabled /\ node.Available

\* The objects Store.nodeStates holds
StoredKeys == {k \in NodeKeys : nodeStates[k] # Absent}

\* The orders in which a range over Store.nodeStates can visit its entries
MapOrders == Orders(StoredKeys)

\* The keys, in visiting order, of the nodes that pass a listing method's test
Listing(order, Test(_)) ==
    LET Keep(k) == Test(nodeStates[k]) IN SelectSeq(order, Keep)

\* ListAvailableNodes without the status test
ListAvailableNodesIn_IgnoresStatus(order) ==
    LET Test(node) == node.Available IN Listing(order, Test)

\* Store.ListAvailableNodes
ListAvailableNodesIn(order) == Listing(order, Selectable)

\* Store.ListNodesByLatency
ListNodesByLatencyIn(order, level) ==
    LET Test(node) == node.LatencyLevel = level /\ node.Status = NodeStatusEnabled
                      /\ node.Available
    IN  Listing(order, Test)

\* Store.ListNodesByRegion
ListNodesByRegionIn(order, region) ==
    LET Test(node) == node.Region = region /\ node.Status = NodeStatusEnabled
                      /\ node.Available
    IN  Listing(order, Test)

\* ListNodesBySubscription with the availability test of the other listings
ListNodesBySubscriptionIn_AvailableOnly(order, subID) ==
    LET Test(node) == node.SubscriptionID = subID /\ node.Status = NodeStatusEnabled
                      /\ node.Available
    IN  Listing(order, Test)

\* Store.ListNodesBySubscription
ListNodesBySubscriptionIn(order, subID) ==
    LET Test(node) == node.SubscriptionID = subID /\ node.Status = NodeStatusEnabled
    IN  Listing(order, Test)

\* The grouping test without the availability test
Grouped_IgnoresAvailability(node) == node.Status = NodeStatusEnabled

\* The test of GetGroupedByLatency and GetGroupedByRegion for adding a node to a bucket
Grouped(node) == node.Status = NodeStatusEnabled /\ node.Available

\* Store.GetGroupedByLatency: the buckets that exist, each with its keys
GetGroupedByLatencyIn(order) ==
    LET sel == Listing(order, Grouped)
        buckets == {nodeStates[k].LatencyLevel : k \in Range(sel)}
    IN  [b \in buckets |->
            LET Keep(k) == nodeStates[k].LatencyLevel = b IN SelectSeq(sel, Keep)]

\* The bucket without the "unknown" default
RegionBucket_NoDefault(node) == node.Region

\* The bucket GetGroupedByRegion files a node under
RegionBucket(node) == IF node.Region = "" THEN "unknown" ELSE node.Region

\* Store.GetGroupedByRegion
GetGroupedByRegionIn(order) ==
    LET sel == Listing(order, Grouped)
        buckets == {RegionBucket(nodeStates[k]) : k \in Range(sel)}
    IN  [b \in buckets |->
            LET Keep(k) == RegionBucket(nodeStates[k]) = b IN SelectSeq(sel, Keep)]

----------------------------------------------------------------------------
(* ProxyPool: references, filters, weights *)

\* A reference held in ProxyPool.nodes to the object Store.nodeStates[k] points to
SharedRef(k) == [key |-> k, shared |-> TRUE, obj |-> Absent]

\* The fields of the object a reference points to, read now
Deref(e) == IF e.shared THEN nodeStates[e.key] ELSE e.obj

\* The fields of every element of a list of references
DerefAll(list) == [i \in 1..Len(list) |-> Deref(list[i])]

\* proxypool.Filter; isNil is the nil *Filter
Filter(level, region, sub) ==
    [isNil |-> FALSE, LatencyLevel |-> level, Region |-> region, Subscription |-> sub]

NilFilter == [isNil |-> TRUE, LatencyLevel |-> "", Region |-> "", Subscription |-> ""]

\* The loop body of getFilteredNodes: does the node pass the filter
Matches(node, filter) ==
    /\ ~(filter.LatencyLevel # "" /\ node.LatencyLevel # filter.LatencyLevel)
    /\ ~(filter.Region # "" /\ node.Region # filter.Region)
    /\ ~(filter.Subscription # "" /\ node.SubscriptionID # filter.Subscription
                                  /\ node.SubscriptionName # filter.Subscription)

\* ProxyPool.getFilteredNodes
getFilteredNodes(filter) ==
    IF filter.isNil THEN nodes
    ELSE LET Keep(e) == Matches(Deref(e), filter) IN SelectSeq(nodes, Keep)

\* getFallbackNodes trying the high tier before the medium tier
getFallbackNodes_HighFirst(filter) ==
    IF filter.LatencyLevel = LatencyLevelLow
    THEN LET high == getFilteredNodes([filter EXCEPT !.LatencyLevel = LatencyLevelHigh])
         IN  IF Len(high) > 0 THEN high
             ELSE getFilteredNodes([filter EXCEPT !.LatencyLevel = LatencyLevelMedium])
    ELSE IF filter.LatencyLevel = LatencyLevelMedium
    THEN getFilteredNodes([filter EXCEPT !.LatencyLevel = LatencyLevelHigh])
    ELSE getFilteredNodes([filter EXCEPT !.LatencyLevel = ""])

\* getFallbackNodes relaxing the region and subscription filters with the latency filter
getFallbackNodes_DropsFilters(filter) ==
    LET open == [filter EXCEPT !.Region = "", !.Subscription = ""]
    IN  IF filter.LatencyLevel = LatencyLevelLow
        THEN LET medium == getFilteredNodes([open EXCEPT !.LatencyLevel = LatencyLevelMedium])
             IN  IF Len(medium) > 0 THEN medium
                 ELSE getFilteredNodes([open EXCEPT !.LatencyLevel = LatencyLevelHigh])
        ELSE IF filter.LatencyLevel = LatencyLevelMedium
        THEN getFilteredNodes([open EXCEPT !.LatencyLevel = LatencyLevelHigh])
        ELSE getFilteredNodes([open EXCEPT !.LatencyLevel = ""])

\* getFallbackNodes dropping the latency filter for the medium tier too
getFallbackNodes_MediumUnfiltered(filter) ==
    IF filter.LatencyLevel = LatencyLevelLow
    THEN LET medium == getFilteredNodes([filter EXCEPT !.LatencyLevel = LatencyLevelMedium])
         IN  IF Len(medium) > 0 THEN medium
             ELSE getFilteredNodes([filter EXCEPT !.LatencyLevel = LatencyLevelHigh])
    ELSE getFilteredNodes([filter EXCEPT !.LatencyLevel = ""])

\* ProxyPool.getFallbackNodes
getFallbackNodes(filter) ==
    IF filter.LatencyLevel = LatencyLevelLow
    THEN LET medium == getFilteredNodes([filter EXCEPT !.LatencyLevel = LatencyLevelMedium])
         IN  IF Len(medium) > 0 THEN medium
             ELSE getFilteredNodes([filter EXCEPT !.LatencyLevel = LatencyLevelHigh])
    ELSE IF filter.LatencyLevel = LatencyLevelMedium
    THEN getFilteredNodes([filter EXCEPT !.LatencyLevel = LatencyLevelHigh])
    ELSE getFilteredNodes([filter EXCEPT !.LatencyLevel = ""])

\* GetProxy's candidate list with the fallback taken whatever fallbackEnabled says
Candidates_AlwaysFallback(filter) ==
    LET filtered == getFilteredNodes(filter)
    IN  IF Len(filtered) = 0 /\ ~filter.isNil
        THEN getFallbackNodes(filter)
        ELSE filtered

\* The candidate list GetProxy selects from (empty: ErrNoAvailableProxy)
Candidates(filter) ==
    LET filtered == getFilteredNodes(filter)
    IN  IF Len(filtered) = 0 /\ fallbackEnabled /\ ~filter.isNil
        THEN getFallbackNodes(filter)
        ELSE filtered

\* calculateWeight with the steps of 200 ms and 300 ms exchanged
calculateWeight_StepsExchanged(latencyMs) ==
    IF latencyMs < 0 THEN 1
    ELSE IF latencyMs <= 50 THEN 100
    ELSE IF latencyMs <= 100 THEN 80
    ELSE IF latencyMs <= 200 THEN 30
    ELSE IF latencyMs <= 300 THEN 50
    ELSE IF latencyMs <= 500 THEN 15
    ELSE 5

\* calculateWeight
calculateWeight(latencyMs) ==
    IF latencyMs < 0 THEN 1
    ELSE IF latencyMs <= 50 THEN 100
    ELSE IF latencyMs <= 100 THEN 80
    ELSE IF latencyMs <= 200 THEN 50
    ELSE IF latencyMs <= 300 THEN 30
    ELSE IF latencyMs <= 500 THEN 15
    ELSE 5

\* The node names a weight table can hold
NodeNames == NodeKeys \cup {""}

\* updateWeights, the table: the last node of a name sets the entry
WeightTable(recs) ==
    [nm \in NodeNames |->
        LET idx == {i \in 1..Len(recs) : recs[i].Name = nm}
        IN  IF idx = {} THEN 0
            ELSE calculateWeight(recs[CHOOSE i \in idx : \A j \in idx : j <= i].Latency)]

\* updateWeights, the total
WeightTotal(recs) == SumSeq([i \in 1..Len(recs) |-> calculateWeight(recs[i].Latency)])

\* The weight selectWeighted gives a node: its table entry, 1 without one
WeightOf(node) == IF weights[node.Name] # 0 THEN weights[node.Name] ELSE 1

----------------------------------------------------------------------------
(* ProxyPool: selection strategies *)

\* selectSequential indexing without the cursor
selectSequential_IgnoresCursor(list, idx) == list[1]

\* selectSequential: the element the cursor value idx picks
selectSequential(list, idx) == list[(idx % Len(list)) + 1]

\* selectRandom: the elements rand.Intn(len) can pick
selectRandom(list) == Range(list)

\* A less function that does not put unknown latency last
LatencyLess_UnknownFirst(a, b) == a.Latency < b.Latency

\* The less function selectLatencyFirst hands to sort.Slice
LatencyLess(a, b) ==
    IF a.Latency < 0 THEN FALSE
    ELSE IF b.Latency < 0 THEN TRUE
    ELSE a.Latency < b.Latency

\* The orders sort.Slice (not stable) can leave the list in
SortedOrders(list) ==
    {[i \in 1..Len(list) |-> list[p[i]]] :
        p \in {q \in Orders(1..Len(list)) :
                 \A i, j \in 1..Len(list) :
                    i < j => ~LatencyLess(Deref(list[q[j]]), Deref(list[q[i]]))}}

\* The number of leading entries selectLatencyFirst draws from
TopN == 3

\* selectLatencyFirst: the elements it can return
selectLatencyFirst(list) ==
    LET topN == IF Len(list) < TopN THEN Len(list) ELSE TopN
    IN  {sorted[i] : sorted \in SortedOrders(list), i \in 1..topN}

\* selectWeighted's first loop: the total weight of the list
ListWeight(list) == SumSeq([i \in 1..Len(list) |-> WeightOf(Deref(list[i]))])

\* selectWeighted's second loop from position i with r left of the draw
RECURSIVE WeightedWalk(_, _, _)
WeightedWalk(list, r, i) ==
    IF i > Len(list) THEN list[1]
    ELSE LET left == r - WeightOf(Deref(list[i]))
         IN  IF left < 0 THEN list[i] ELSE WeightedWalk(list, left, i + 1)

\* selectWeighted with the walk started one unit into the draw
selectWeightedAt_ShiftedDraw(list, r) == WeightedWalk(list, r + 1, 1)

\* selectWeighted for the draw r = rand.Intn(totalWeight)
selectWeightedAt(list, r) == WeightedWalk(list, r, 1)

\* selectWeighted: the elements it can return
selectWeighted(list) ==
    IF ListWeight(list) = 0 THEN Range(list)
    ELSE {selectWeightedAt(list, r) : r \in 0..(ListWeight(list) - 1)}

\* The switch of GetProxy: the elements the active mode can return from a non-empty list
SelectByMode(list) ==
    CASE mode = PoolModeRandom       -> selectRandom(list)
      [] mode = PoolModeLatencyFirst -> selectLatencyFirst(list)
      [] mode = PoolModeWeighted     -> selectWeighted(list)
      [] OTHER                       -> {selectSequential(list, currentIndex)}

----------------------------------------------------------------------------
(* What a call returned *)

Returned(op, filter, limit, err, node, list) ==
    [op |-> op, arg |-> "", filter |-> filter, limit |-> limit, err |-> err, node |-> node,
     list |-> list, groups |-> <<>>]

\* What a listing method of the Store returned: the fields of the listed nodes
Listed(op, arg, keys) ==
    [Returned(op, NilFilter, 0, ErrNone, Absent, [i \in 1..Len(keys) |-> nodeStates[keys[i]]])
        EXCEPT !.arg = arg]

\* What a grouping method of the Store returned
GroupedAs(op, groups) ==
    [Returned(op, NilFilter, 0, ErrNone, Absent, <<>>)
        EXCEPT !.groups = [b \in DOMAIN groups |->
                             [i \in 1..Len(groups[b]) |-> nodeStates[groups[b][i]]]]]

\* What a Store call on subscriptions, configuration or the data file returned
Answer(op, arg, err, value) == [op |-> op, arg |-> arg, err |-> err, value |-> value]

\* After a call that returns nothing
NoRet == Returned("none", NilFilter, 0, ErrNone, Absent, <<>>)

----------------------------------------------------------------------------
(* Subscriptions *)

\* Subscription, the fields given by the caller or defaulted by the Store
Subscription(id, name, url, enabled, interval) ==
    [ID |-> id, Name |-> name, URL |-> url, Enabled |-> enabled, RefreshInterval |-> interval]

\* No entry in Store.subscriptions
NoSub == Subscription("", "", "", FALSE, "absent")

\* The identifiers generateID can produce
GeneratedIDs == {"g1", "g2"}

\* Subscription identifiers of the model
SubIDs == {"s1", "s2"} \cup GeneratedIDs

\* GetSubscription's lookup
GetSubscriptionIn(subs, id) ==
    IF id \notin SubIDs \/ subs[id] = NoSub THEN [sub |-> NoSub, err |-> ErrSubscriptionNotFound]
    ELSE [sub |-> subs[id], err |-> ErrNone]

\* GetNodeState's lookup
GetNodeStateIn(ns, name) == [node |-> ns[name], exists |-> ns[name] # Absent]

----------------------------------------------------------------------------
(* The data file: storeData as json.MarshalIndent writes it and json.Unmarshal reads it *)

\* A field with the omitempty tag that was left out of the JSON object
JSONOmitted == "<omitted>"

OmitEmpty(v) == IF v = "" THEN JSONOmitted ELSE v

\* The zero value a missing JSON field leaves in the Go struct
ZeroIfOmitted(v) == IF v = JSONOmitted THEN "" ELSE v

MarshalNode(n) ==
    [name |-> n.Name, uri |-> n.URI,
     subscription_id |-> OmitEmpty(n.SubscriptionID),
     subscription_name |-> OmitEmpty(n.SubscriptionName),
     region |-> OmitEmpty(n.Region),
     latency |-> n.Latency, latency_level |-> n.LatencyLevel,
     status |-> n.Status, available |-> n.Available]

UnmarshalNode(j) ==
    EnhancedNode(j.name, j.uri, ZeroIfOmitted(j.subscription_id),
                 ZeroIfOmitted(j.subscription_name), ZeroIfOmitted(j.region),
                 j.latency, j.latency_level, j.status, j.available)

MarshalSubscription(sub) ==
    [id |-> sub.ID, name |-> sub.Name, url |-> sub.URL, enabled |-> sub.Enabled,
     refresh_interval |-> sub.RefreshInterval]

UnmarshalSubscription(j) == Subscription(j.id, j.name, j.url, j.enabled, j.refresh_interval)

\* storeData marshalled: the three top-level fields, the maps as JSON objects
storeData(subs, ns, cfg) ==
    [subscriptions  |-> [id \in {i \in SubIDs : subs[i] # NoSub} |-> MarshalSubscription(subs[id])],
     node_states    |-> [k \in {x \in NodeKeys : ns[x] # Absent} |-> MarshalNode(ns[k])],
     latency_config |-> [low_threshold |-> cfg.LowThreshold,
                         medium_threshold |-> cfg.MediumThreshold]]

\* store.json: missing, unreadable as JSON, or a document
NoFile      == [state |-> "missing", doc |-> <<>>]
CorruptFile == [state |-> "corrupt", doc |-> <<>>]
FileOf(doc) == [state |-> "written", doc |-> doc]

\* save that reports success whatever os.WriteFile returned
save_DropsWriteError(subs, ns, cfg) ==
    IF dataDir = "" THEN {[err |-> ErrNone, disk |-> disk]}
    ELSE {[err |-> ErrNone, disk |-> FileOf(storeData(subs, ns, cfg))]}
         \cup (IF diskFaulty
                THEN {[err |-> ErrNone, disk |-> disk],
                      [err |-> ErrNone, disk |-> CorruptFile]}
                ELSE {})

\* save writing the subscriptions and the thresholds without the node records
save_WithoutNodeStates(subs, ns, cfg) ==
    IF dataDir = "" THEN {[err |-> ErrNone, disk |-> disk]}
    ELSE {[err |-> ErrNone,
           disk |-> FileOf(storeData(subs, [k \in NodeKeys |-> Absent], cfg))]}
         \cup (IF diskFaulty
                THEN {[err |-> ErrWriteFile, disk |-> disk],
                      [err |-> ErrWriteFile, disk |-> CorruptFile]}
                ELSE {})

\* Store.save for the given memory: the error returned and the file left behind
save(subs, ns, cfg) ==
    IF dataDir = "" THEN {[err |-> ErrNone, disk |-> disk]}
    ELSE {[err |-> ErrNone, disk |-> FileOf(storeData(subs, ns, cfg))]}
         \cup (IF diskFaulty
                THEN {[err |-> ErrWriteFile, disk |-> disk],
                      [err |-> ErrWriteFile, disk |-> CorruptFile]}
                ELSE {})

\* The memory NewStore starts with before load
NewStoreDefaults ==
    [subscriptions |-> [id \in SubIDs |-> NoSub],
     nodeStates    |-> [k \in NodeKeys |-> Absent],
     latencyConfig |-> [LowThreshold |-> DefaultLowThreshold,
                        MediumThreshold |-> DefaultMediumThreshold]]

\* Store.load into the memory mem: a missing file and a file that does not parse leave
\* mem as it is (NewStore drops load's error)
load(file, mem) ==
    IF file.state # "written" THEN mem
    ELSE [subscriptions |->
             [id \in SubIDs |-> IF id \in DOMAIN file.doc.subscriptions
                                THEN UnmarshalSubscription(file.doc.subscriptions[id])
                                ELSE NoSub],
          nodeStates |->
             [k \in NodeKeys |-> IF k \in DOMAIN file.doc.node_states
                                 THEN UnmarshalNode(file.doc.node_states[k])
                                 ELSE Absent],
          latencyConfig |->
             IF file.doc.latency_config.low_threshold > 0
             THEN [LowThreshold |-> file.doc.latency_config.low_threshold,
                   MediumThreshold |-> file.doc.latency_config.medium_threshold]
             ELSE mem.latencyConfig]

\* The error Store.load returns: none for a missing file, json.Unmarshal's for a file
\* that does not parse
ErrUnmarshal == "invalid character"
loadError(file) == IF file.state = "corrupt" THEN ErrUnmarshal ELSE ErrNone

\* NewStore(dataDir) with the file found there; load's error is assigned to _
NewStoreFrom(dir, file) == IF dir = "" THEN NewStoreDefaults ELSE load(file, NewStoreDefaults)

----------------------------------------------------------------------------
(* sync.RWMutex and the calls taken step by step *)

\* The goroutines that call into the Store and the ProxyPool (request handlers, the
\* health-check loop)
Goroutines == {"t1", "t2", "t3"}

\* A sync.RWMutex: the goroutine that called Lock (it holds the lock once the readers
\* have left; until then it keeps new readers out) and the goroutines holding RLock
FreeMutex == [writer |-> "", readers |-> {}]

\* A call in progress: the method, its arguments, the next instruction, and what the
\* call has read or decided so far
Call(op, key, status, sub) ==
    [op |-> op, key |-> key, status |-> status, sub |-> sub, latency |-> -1,
     available |-> FALSE, pc |-> 1, got |-> <<>>, list |-> <<>>, id |-> "", err |-> ErrNone]

\* A goroutine outside every call
NoCall == [Call("idle", "", "", NoSub) EXCEPT !.pc = 0]

\* The Store methods that end with save()
PersistingOps == {"SetNodeStatus", "AddSubscription", "UpdateSubscription", "DeleteSubscription"}

\* The calls that change the registry: the Store's mutating methods, and one node of
\* runAutoSpeedtest's loop, which writes the health-check result into the object
\* GetNodeState returned and hands the same object to UpdateNodeState
MutatingOps == PersistingOps \cup {"UpdateNodeState", "runAutoSpeedtest"}

\* One node of runAutoSpeedtest's loop
SpeedtestProgram ==
    <<"S.RLock", "S.read", "S.RUnlock", "w.Latency", "w.LatencyLevel", "w.Available",
      "S.Lock", "S.Drain", "S.mutate", "S.Unlock">>

\* RefreshNodes' instructions: the pool's lock is held while ListAvailableNodes takes
\* and releases the store's read lock
RefreshProgram == <<"P.Lock", "P.Drain", "S.RLock", "S.list", "S.RUnlock", "P.swap", "P.Unlock">>

\* GetProxy in sequential mode, instruction by instruction: the filtering, the atomic
\* Add of selectSequential, the indexing of the list
SelectProgram == <<"P.RLock", "P.filter", "P.Add", "P.index", "P.RUnlock">>

\* The toggle request of handleSubscriptionItem: GetSubscription, the negation of
\* sub.Enabled in the object it returned (a load and a store, no lock held), and
\* UpdateSubscription with the same object
ToggleProgram ==
    <<"S.RLock", "S.read", "S.RUnlock", "t.load", "t.store",
      "S.Lock", "S.Drain", "S.mutate", "S.save", "S.Unlock">>

\* The instructions with SetNodeStatus refreshing the pool before it releases Store.mu
Program_RefreshUnderStoreLock(op) ==
    CASE op = "SetNodeStatus" ->
             <<"S.Lock", "S.Drain", "S.mutate", "S.save", "P.Lock", "P.Drain", "P.Unlock",
               "S.Unlock">>
      [] op \in PersistingOps \ {"SetNodeStatus"} ->
             <<"S.Lock", "S.Drain", "S.mutate", "S.save", "S.Unlock">>
      [] op = "UpdateNodeState" -> <<"S.Lock", "S.Drain", "S.mutate", "S.Unlock">>
      [] op = "runAutoSpeedtest" -> SpeedtestProgram
      [] op \in {"GetNodeState", "GetSubscription"} -> <<"S.RLock", "S.read", "S.RUnlock">>
      [] op = "RefreshNodes" -> RefreshProgram
      [] op = "Stats" -> RefreshProgram \o <<"P.RLock", "P.read", "P.RUnlock">>
      [] op = "GetProxy.sequential" -> SelectProgram
      [] op = "toggle" -> ToggleProgram
      [] OTHER -> <<"P.RLock", "P.read", "P.RUnlock">>

\* The lock operations and the work of each call, in program order
Program(op) ==
    CASE op \in PersistingOps -> <<"S.Lock", "S.Drain", "S.mutate", "S.save", "S.Unlock">>
      [] op = "UpdateNodeState" -> <<"S.Lock", "S.Drain", "S.mutate", "S.Unlock">>
      [] op = "runAutoSpeedtest" -> SpeedtestProgram
      [] op \in {"GetNodeState", "GetSubscription"} -> <<"S.RLock", "S.read", "S.RUnlock">>
      [] op = "RefreshNodes" -> RefreshProgram
      [] op = "Stats" -> RefreshProgram \o <<"P.RLock", "P.read", "P.RUnlock">>
      [] op = "GetProxy.sequential" -> SelectProgram
      [] op = "toggle" -> ToggleProgram
      [] OTHER -> <<"P.RLock", "P.read", "P.RUnlock">>

\* The instruction goroutine t executes next ("" outside a call)
Instruction(t) == IF calls[t].op = "idle" THEN "" ELSE Program(calls[t].op)[calls[t].pc]

\* The call after one more instruction; past the last one the method has returned
Advanced(c) == IF c.pc + 1 > Len(Program(c.op)) THEN NoCall ELSE [c EXCEPT !.pc = @ + 1]

\* RLock goes through unless a goroutine has called Lock
CanRLock(mu) == mu.writer = ""

\* Whether goroutine t can execute its next instruction: Lock is taken in two steps, the
\* call (possible when no other goroutine has called Lock) and the wait for the readers
CanStep(t) ==
    CASE Instruction(t) = ""         -> FALSE
      [] Instruction(t) = "S.Lock"   -> storeMu.writer = ""
      [] Instruction(t) = "P.Lock"   -> poolMu.writer = ""
      [] Instruction(t) = "S.Drain"  -> storeMu.readers = {}
      [] Instruction(t) = "P.Drain"  -> poolMu.readers = {}
      [] Instruction(t) = "S.RLock"  -> CanRLock(storeMu)
      [] Instruction(t) = "P.RLock"  -> CanRLock(poolMu)
      [] OTHER                       -> TRUE

\* The error a mutating method returns before it changes anything
LookupError(c, mem) ==
    CASE c.op = "SetNodeStatus" /\ mem.nodeStates[c.key] = Absent -> ErrNodeNotFound
      [] c.op = "UpdateSubscription" /\ mem.subscriptions[c.sub.ID] = NoSub
            -> ErrSubscriptionNotFound
      [] c.op = "DeleteSubscription" /\ mem.subscriptions[c.key] = NoSub
            -> ErrSubscriptionNotFound
      [] OTHER -> ErrNone

\* The registry mem after the mutating call c
Applied(c, mem) ==
    CASE LookupError(c, mem) # ErrNone -> mem
      [] c.op = "SetNodeStatus" -> [mem EXCEPT !.nodeStates[c.key].Status = c.status]
      [] c.op = "UpdateNodeState" ->
            [mem EXCEPT !.nodeStates[c.key] =
                           EnhancedNode(c.key, "uri-" \o c.key, Descriptor(c.key).sid,
                                        Descriptor(c.key).sname, Descriptor(c.key).region,
                                        -1, LatencyLevelUnknown, NodeStatusEnabled, TRUE)]
      [] c.op = "runAutoSpeedtest" /\ mem.nodeStates[c.key] # Absent ->
            [mem EXCEPT !.nodeStates[c.key].Latency = c.latency,
                        !.nodeStates[c.key].LatencyLevel = CalculateLatencyLevel(c.latency),
                        !.nodeStates[c.key].Available = c.available]
      [] c.op = "AddSubscription" /\ c.id \in SubIDs ->
            [mem EXCEPT !.subscriptions[c.id] =
                           [c.sub EXCEPT !.ID = c.id,
                                         !.RefreshInterval = IF @ = "" THEN "1h" ELSE @]]
      [] c.op = "UpdateSubscription" -> [mem EXCEPT !.subscriptions[c.sub.ID] = c.sub]
      [] c.op = "DeleteSubscription" -> [mem EXCEPT !.subscriptions[c.key] = NoSub]
      [] OTHER -> mem

\* References to the object the registry held under key, once the registry holds
\* another object there
Detached(list, key) ==
    [i \in 1..Len(list) |->
        IF list[i].shared /\ list[i].key = key
        THEN [key |-> key, shared |-> FALSE, obj |-> nodeStates[key]]
        ELSE list[i]]

----------------------------------------------------------------------------
(* Initial state: NewStore (which loads the data file if there is one), NewProxyPool *)

\* The node_states of the data files NewStore starts from: none, or three tested nodes
NodeAt(k, latencyMs) ==
    EnhancedNode(k, "uri-" \o k, Descriptor(k).sid, Descriptor(k).sname, Descriptor(k).region,
                 latencyMs,
                 ClassifyLatency(latencyMs, [LowThreshold |-> DefaultLowThreshold,
                                             MediumThreshold |-> DefaultMediumThreshold]),
                 NodeStatusEnabled, TRUE)

EmptyRegistry == [k \in NodeKeys |-> Absent]

SavedRegistry ==
    [k \in NodeKeys |->
        CASE k = "A" -> NodeAt("A", 50)
          [] k = "B" -> NodeAt("B", 150)
          [] k = "C" -> NodeAt("C", 400)
          [] OTHER   -> Absent]

\* The subscriptions of the data file with three nodes
SavedSubscriptions ==
    [id \in SubIDs |-> IF id = "s1" THEN Subscription("s1", "alpha", "http://alpha", TRUE, "1h")
                       ELSE NoSub]

\* The data file with three tested nodes
SavedFile == FileOf(storeData(SavedSubscriptions, SavedRegistry, NewStoreDefaults.latencyConfig))

\* No run of GetProxy calls recorded
NoRun == [filter |-> NilFilter, keys |-> <<>>]

\* NewStore and NewProxyPool, for the data directories dirs and the disks that can
\* (faults = TRUE) or cannot fail on write
Constructed(dirs, faults) ==
    /\ dataDir \in dirs
    /\ diskFaulty \in faults
    /\ disk \in (IF dataDir = "" THEN {NoFile} ELSE {NoFile, SavedFile})
    /\ subscriptions = NewStoreFrom(dataDir, disk).subscriptions
    /\ nodeStates = NewStoreFrom(dataDir, disk).nodeStates
    /\ latencyConfig = NewStoreFrom(dataDir, disk).latencyConfig
    /\ mode \in PoolModes
    /\ nodes = <<>>
    /\ weights = [nm \in NodeNames |-> 0]
    /\ totalWeight = 0
    /\ currentIndex = 0
    /\ fallbackEnabled \in BOOLEAN
    /\ refreshed = <<>>
    /\ seen = NoRun
    /\ mutations = 0
    /\ ret = NoRet
    /\ storeMu = FreeMutex
    /\ poolMu = FreeMutex
    /\ calls = [t \in Goroutines |-> NoCall]
    /\ committed = [subscriptions |-> subscriptions, nodeStates |-> nodeStates]

\* A store with a data directory on a disk that takes every write: the file is missing
\* (EmptyRegistry) or holds three tested nodes (SavedRegistry)
Init == Constructed({"data"}, {FALSE}) /\ apiKey = ""

----------------------------------------------------------------------------
(* Bounds of a run *)

\* Registry mutations explored in one run
MaxMutations == 2

\* The callers are sequential: a call starts when the last result has been taken
Idle == ret = NoRet

\* A registry mutation within the bound
Mutation == mutations < MaxMutations /\ mutations' = mutations + 1

----------------------------------------------------------------------------
(* Store actions *)

\* UpdateNodeState ending with save()
UpdateNodeState_Saves(node) ==
    LET key == KeyOf(node)
    IN  /\ Idle /\ Mutation
        /\ nodeStates' = [nodeStates EXCEPT ![key] = node]
        /\ nodes' = [i \in 1..Len(nodes) |->
                        IF nodes[i].shared /\ nodes[i].key = key
                        THEN [key |-> key, shared |-> FALSE, obj |-> nodeStates[key]]
                        ELSE nodes[i]]
        /\ disk' = IF dataDir = "" THEN disk
                   ELSE FileOf(storeData(subscriptions, nodeStates', latencyConfig))
        /\ seen' = NoRun
        /\ ret' = NoRet
        /\ UNCHANGED <<latencyConfig, mode, weights, totalWeight, currentIndex,
                       fallbackEnabled, refreshed, subscriptions, dataDir, diskFaulty,
                       lockVars, apiKey>>

\* Store.UpdateNodeState with a node object the registry does not hold yet
UpdateNodeState(node) ==
    LET key == KeyOf(node)
    IN  /\ Idle /\ Mutation
        /\ nodeStates' = [nodeStates EXCEPT ![key] = node]
        \* a reference the engine holds to the replaced object keeps pointing to it
        /\ nodes' = [i \in 1..Len(nodes) |->
                        IF nodes[i].shared /\ nodes[i].key = key
                        THEN [key |-> key, shared |-> FALSE, obj |-> nodeStates[key]]
                        ELSE nodes[i]]
        /\ seen' = NoRun
        /\ ret' = NoRet
        /\ UNCHANGED <<latencyConfig, mode, weights, totalWeight, currentIndex,
                       fallbackEnabled, refreshed, fileVars, lockVars, apiKey>>

\* One node of runAutoSpeedtest's loop: GetNodeState, write the health-check
\* result into the object, UpdateNodeState with the same object
SpeedtestNode(name, latencyMs, available) ==
    /\ Idle /\ Mutation
    /\ nodeStates[name] # Absent
    /\ nodeStates' = [nodeStates EXCEPT
                        ![name].Latency = latencyMs,
                        ![name].LatencyLevel = CalculateLatencyLevel(latencyMs),
                        ![name].Available = available]
    /\ seen' = NoRun
    /\ ret' = NoRet
    /\ UNCHANGED <<latencyConfig, poolVars, refreshed, fileVars, lockVars>>

\* Store.SetNodeStatus
SetNodeStatus(name, status) ==
    /\ Idle /\ Mutation
    /\ IF nodeStates[name] = Absent
       THEN /\ ret' = Returned("SetNodeStatus", NilFilter, 0, ErrNodeNotFound, Absent, <<>>)
            /\ UNCHANGED <<nodeStates, disk>>
       ELSE /\ nodeStates' = [nodeStates EXCEPT ![name].Status = status]
            /\ \E saved \in save(subscriptions, nodeStates', latencyConfig) :
                  /\ disk' = saved.disk
                  /\ ret' = Returned("SetNodeStatus", NilFilter, 0, saved.err, Absent, <<>>)
    /\ seen' = NoRun
    /\ UNCHANGED <<latencyConfig, poolVars, refreshed, subscriptions, dataDir, diskFaulty, lockVars>>

\* Store.ListAvailableNodes, called
ListAvailableNodes ==
    \E order \in MapOrders :
        /\ Idle
        /\ ret' = Listed("ListAvailableNodes", "", ListAvailableNodesIn(order))
        /\ UNCHANGED <<storeVars, poolVars, refreshed, seen, mutations, fileVars, lockVars>>

\* Store.ListNodesByLatency, called
ListNodesByLatency(level) ==
    \E order \in MapOrders :
        /\ Idle
        /\ ret' = Listed("ListNodesByLatency", level, ListNodesByLatencyIn(order, level))
        /\ UNCHANGED <<storeVars, poolVars, refreshed, seen, mutations, fileVars, lockVars>>

\* Store.ListNodesByRegion, called
ListNodesByRegion(region) ==
    \E order \in MapOrders :
        /\ Idle
        /\ ret' = Listed("ListNodesByRegion", region, ListNodesByRegionIn(order, region))
        /\ UNCHANGED <<storeVars, poolVars, refreshed, seen, mutations, fileVars, lockVars>>

\* Store.ListNodesBySubscription, called
ListNodesBySubscription(subID) ==
    \E order \in MapOrders :
        /\ Idle
        /\ ret' = Listed("ListNodesBySubscription", subID,
                         ListNodesBySubscriptionIn(order, subID))
        /\ UNCHANGED <<storeVars, poolVars, refreshed, seen, mutations, fileVars, lockVars>>

\* Store.GetGroupedByLatency, called
GetGroupedByLatency ==
    \E order \in MapOrders :
        /\ Idle
        /\ ret' = GroupedAs("GetGroupedByLatency", GetGroupedByLatencyIn(order))
        /\ UNCHANGED <<storeVars, poolVars, refreshed, seen, mutations, fileVars, lockVars>>

\* Store.GetGroupedByRegion, called
GetGroupedByRegion ==
    \E order \in MapOrders :
        /\ Idle
        /\ ret' = GroupedAs("GetGroupedByRegion", GetGroupedByRegionIn(order))
        /\ UNCHANGED <<storeVars, poolVars, refreshed, seen, mutations, fileVars, lockVars>>

\* Store.GetNodeState, called
GetNodeState(name) ==
    /\ Idle
    /\ ret' = Answer("GetNodeState", name, ErrNone, GetNodeStateIn(nodeStates, name))
    /\ UNCHANGED <<storeVars, poolVars, refreshed, seen, mutations, fileVars, lockVars>>

\* Store.SetLatencyConfig
SetLatencyConfig(cfg) ==
    /\ Idle /\ Mutation
    /\ latencyConfig' = cfg
    /\ seen' = NoRun
    /\ ret' = NoRet
    /\ UNCHANGED <<nodeStates, poolVars, refreshed, fileVars, lockVars>>

\* Store.CalculateLatencyLevel, called
CallCalculateLatencyLevel(latencyMs) ==
    /\ Idle
    /\ ret' = Answer("CalculateLatencyLevel", latencyMs, ErrNone,
                     CalculateLatencyLevel(latencyMs))
    /\ UNCHANGED <<storeVars, poolVars, refreshed, seen, mutations, fileVars, lockVars>>

\* AddSubscription without the "1h" default
AddSubscription_NoDefaultInterval(sub) ==
    /\ Idle /\ Mutation
    /\ \E id \in (IF sub.ID = "" THEN GeneratedIDs ELSE {sub.ID}) :
          LET stored == [sub EXCEPT !.ID = id]
          IN  /\ subscriptions' = [subscriptions EXCEPT ![id] = stored]
              /\ \E saved \in save(subscriptions', nodeStates, latencyConfig) :
                    /\ disk' = saved.disk
                    /\ ret' = Answer("AddSubscription", sub, saved.err, stored)
    /\ seen' = NoRun
    /\ UNCHANGED <<storeVars, poolVars, refreshed, dataDir, diskFaulty, lockVars>>

\* Store.AddSubscription; ret.value is the caller's object after the call
AddSubscription(sub) ==
    /\ Idle /\ Mutation
    /\ \E id \in (IF sub.ID = "" THEN GeneratedIDs ELSE {sub.ID}) :
          LET stored == [sub EXCEPT !.ID = id,
                                    !.RefreshInterval = IF @ = "" THEN "1h" ELSE @]
          IN  /\ subscriptions' = [subscriptions EXCEPT ![id] = stored]
              /\ \E saved \in save(subscriptions', nodeStates, latencyConfig) :
                    /\ disk' = saved.disk
                    /\ ret' = Answer("AddSubscription", sub, saved.err, stored)
    /\ seen' = NoRun
    /\ UNCHANGED <<storeVars, poolVars, refreshed, dataDir, diskFaulty, lockVars>>

\* Store.UpdateSubscription
UpdateSubscription(sub) ==
    /\ Idle /\ Mutation
    /\ IF GetSubscriptionIn(subscriptions, sub.ID).err = ErrSubscriptionNotFound
       THEN /\ ret' = Answer("UpdateSubscription", sub, ErrSubscriptionNotFound, sub)
            /\ UNCHANGED <<subscriptions, disk>>
       ELSE /\ subscriptions' = [subscriptions EXCEPT ![sub.ID] = sub]
            /\ \E saved \in save(subscriptions', nodeStates, latencyConfig) :
                  /\ disk' = saved.disk
                  /\ ret' = Answer("UpdateSubscription", sub, saved.err, sub)
    /\ seen' = NoRun
    /\ UNCHANGED <<storeVars, poolVars, refreshed, dataDir, diskFaulty, lockVars>>

\* DeleteSubscription that persists before it looks the identifier up
DeleteSubscription_SavesFirst(id) ==
    /\ Idle /\ Mutation
    /\ subscriptions' = [subscriptions EXCEPT ![id] = NoSub]
    /\ \E saved \in save(subscriptions', nodeStates, latencyConfig) :
          /\ disk' = saved.disk
          /\ ret' = Answer("DeleteSubscription", id,
                           IF subscriptions[id] = NoSub THEN ErrSubscriptionNotFound
                           ELSE saved.err, NoSub)
    /\ seen' = NoRun
    /\ UNCHANGED <<storeVars, poolVars, refreshed, dataDir, diskFaulty, lockVars>>

\* DeleteSubscription that also drops the nodes of the subscription
DeleteSubscription_Cascades(id) ==
    /\ Idle /\ Mutation
    /\ IF subscriptions[id] = NoSub
       THEN /\ ret' = Answer("DeleteSubscription", id, ErrSubscriptionNotFound, NoSub)
            /\ UNCHANGED <<subscriptions, nodeStates, disk>>
       ELSE /\ subscriptions' = [subscriptions EXCEPT ![id] = NoSub]
            /\ nodeStates' = [k \in NodeKeys |-> IF nodeStates[k].SubscriptionID = id
                                                 THEN Absent ELSE nodeStates[k]]
            /\ \E saved \in save(subscriptions', nodeStates', latencyConfig) :
                  /\ disk' = saved.disk
                  /\ ret' = Answer("DeleteSubscription", id, saved.err, NoSub)
    /\ seen' = NoRun
    /\ UNCHANGED <<latencyConfig, poolVars, refreshed, dataDir, diskFaulty, lockVars>>

\* Store.DeleteSubscription
DeleteSubscription(id) ==
    /\ Idle /\ Mutation
    /\ IF subscriptions[id] = NoSub
       THEN /\ ret' = Answer("DeleteSubscription", id, ErrSubscriptionNotFound, NoSub)
            /\ UNCHANGED <<subscriptions, disk>>
       ELSE /\ subscriptions' = [subscriptions EXCEPT ![id] = NoSub]
            /\ \E saved \in save(subscriptions', nodeStates, latencyConfig) :
                  /\ disk' = saved.disk
                  /\ ret' = Answer("DeleteSubscription", id, saved.err, NoSub)
    /\ seen' = NoRun
    /\ UNCHANGED <<storeVars, poolVars, refreshed, dataDir, diskFaulty, lockVars>>

\* Store.GetSubscription, called
GetSubscription(id) ==
    /\ Idle
    /\ ret' = Answer("GetSubscription", id, GetSubscriptionIn(subscriptions, id).err,
                     GetSubscriptionIn(subscriptions, id).sub)
    /\ UNCHANGED <<storeVars, poolVars, refreshed, seen, mutations, fileVars, lockVars>>

\* Store.Save
Save ==
    /\ Idle
    /\ \E saved \in save(subscriptions, nodeStates, latencyConfig) :
          /\ disk' = saved.disk
          /\ ret' = Answer("Save", "", saved.err, "")
    /\ seen' = NoRun
    /\ UNCHANGED <<storeVars, poolVars, refreshed, mutations, subscriptions, dataDir,
                   diskFaulty, lockVars>>

\* The process starts again: NewStore(dataDir) reads the data file into a new Store
\* and NewProxyPool builds a new pool on it
NewStore ==
    LET mem == NewStoreFrom(dataDir, disk)
    IN  /\ Idle
        /\ subscriptions' = mem.subscriptions
        /\ nodeStates' = mem.nodeStates
        /\ latencyConfig' = mem.latencyConfig
        /\ nodes' = <<>>
        /\ weights' = [nm \in NodeNames |-> 0]
        /\ totalWeight' = 0
        /\ currentIndex' = 0
        /\ refreshed' = <<>>
        /\ seen' = NoRun
        /\ ret' = Answer("NewStore", dataDir, ErrNone, "")
        /\ UNCHANGED <<mode, fallbackEnabled, mutations, dataDir, disk, diskFaulty, lockVars, apiKey>>

----------------------------------------------------------------------------
(* ProxyPool actions *)

\* ProxyPool.SetMode
SetMode(m) ==
    /\ Idle
    /\ mode' = m
    /\ seen' = NoRun
    /\ ret' = NoRet
    /\ UNCHANGED <<storeVars, nodes, weights, totalWeight, currentIndex,
                   fallbackEnabled, refreshed, mutations, fileVars, lockVars, apiKey>>

\* ProxyPool.RefreshNodes: ListAvailableNodes in some map order, then updateWeights
RefreshNodes ==
    \E order \in MapOrders :
        LET avail == ListAvailableNodesIn(order)
            recs  == [i \in 1..Len(avail) |-> nodeStates[avail[i]]]
        IN  /\ Idle
            /\ nodes' = [i \in 1..Len(avail) |-> SharedRef(avail[i])]
            /\ weights' = WeightTable(recs)
            /\ totalWeight' = WeightTotal(recs)
            /\ refreshed' = recs
            /\ seen' = NoRun
            /\ ret' = NoRet
            /\ UNCHANGED <<storeVars, mode, currentIndex, fallbackEnabled, mutations, fileVars, lockVars, apiKey>>

\* GetProxy advancing the cursor in every mode
GetProxy_AdvancesInEveryMode(filter, maxCalls) ==
    LET list == Candidates(filter)
    IN  /\ Idle
        /\ currentIndex < maxCalls
        /\ IF Len(list) = 0
           THEN /\ ret' = Returned("GetProxy", filter, 0, ErrNoAvailableProxy, Absent, <<>>)
                /\ UNCHANGED currentIndex
           ELSE \E e \in SelectByMode(list) :
                /\ ret' = Returned("GetProxy", filter, 0, ErrNone, Deref(e), <<>>)
                /\ currentIndex' = currentIndex + 1
        /\ UNCHANGED <<storeVars, mode, nodes, weights, totalWeight, fallbackEnabled,
                       refreshed, seen, mutations, fileVars, lockVars, apiKey>>

\* ProxyPool.GetProxy; the node is returned as a pointer, ret.node holds its fields
\* as the caller reads them on return.  maxCalls caps currentIndex.
GetProxy(filter, maxCalls) ==
    LET list == Candidates(filter)
    IN  /\ Idle
        /\ currentIndex < maxCalls
        /\ IF Len(list) = 0
           THEN /\ ret' = Returned("GetProxy", filter, 0, ErrNoAvailableProxy, Absent, <<>>)
                /\ UNCHANGED currentIndex
           ELSE \E e \in SelectByMode(list) :
                /\ ret' = Returned("GetProxy", filter, 0, ErrNone, Deref(e), <<>>)
                /\ IF mode \in {PoolModeRandom, PoolModeLatencyFirst, PoolModeWeighted}
                   THEN UNCHANGED currentIndex
                   ELSE currentIndex' = currentIndex + 1
        /\ UNCHANGED <<storeVars, mode, nodes, weights, totalWeight, fallbackEnabled,
                       refreshed, seen, mutations, fileVars, lockVars, apiKey>>

\* GetProxyList taking GetProxy's candidate list, fallback included
ProxyList_WithFallback(filter, limit) ==
    LET list == Candidates(filter)
    IN  IF limit > 0 /\ Len(list) > limit THEN SubSeq(list, 1, limit) ELSE list

\* The list GetProxyList returns
ProxyList(filter, limit) ==
    LET list == getFilteredNodes(filter)
    IN  IF limit > 0 /\ Len(list) > limit THEN SubSeq(list, 1, limit) ELSE list

\* ProxyPool.GetProxyList; ret.list holds the fields of the nodes as read on return
GetProxyList(filter, limit) ==
        /\ Idle
        /\ ret' = Returned("GetProxyList", filter, limit, ErrNone, Absent,
                           DerefAll(ProxyList(filter, limit)))
        /\ seen' = NoRun
        /\ UNCHANGED <<storeVars, poolVars, refreshed, mutations, fileVars, lockVars>>

----------------------------------------------------------------------------
(* The callers of the engine: the request handlers *)

\* handleGetProxy / handleListProxies / handleNodeStatus after the call: the result is
\* written to the response and dropped
Respond ==
    /\ ~Idle
    /\ ret' = NoRet
    /\ seen' = NoRun
    /\ UNCHANGED <<storeVars, poolVars, refreshed, mutations, fileVars, lockVars>>

\* A client that issues GetProxy requests one after the other and notes the node
\* each response names; a run is a series of responses to one filter
Collect ==
    /\ ~Idle
    /\ ret' = NoRet
    /\ seen' = IF ret.op = "GetProxy" /\ ret.err = ErrNone
               THEN IF seen.keys # <<>> /\ seen.filter = ret.filter
                    THEN [seen EXCEPT !.keys = Append(@, KeyOf(ret.node))]
                    ELSE [filter |-> ret.filter, keys |-> <<KeyOf(ret.node)>>]
               ELSE NoRun
    /\ UNCHANGED <<storeVars, poolVars, refreshed, mutations, fileVars, lockVars>>

----------------------------------------------------------------------------
(* The registry and the engine under sequential callers *)

\* Inputs of the calls
MainKeys    == {"A", "B", "C"}
MainResults == {<<50, TRUE>>, <<400, FALSE>>}
MainFilters ==
    {NilFilter,
     Filter(LatencyLevelLow, "", ""), Filter(LatencyLevelMedium, "", ""),
     Filter(LatencyLevelUnknown, "", ""), Filter("", "US", ""),
     Filter(LatencyLevelLow, "US", ""), Filter(LatencyLevelLow, "", "alpha"),
     Filter("", "", "s1")}
ListFilters ==
    {NilFilter, Filter(LatencyLevelLow, "", ""), Filter("", "US", ""),
     Filter(LatencyLevelLow, "", "alpha")}
MainLimits  == 0..2

\* A node object as syncNodesToStore builds it
SyncedNode(k) == NewNode(k, -1, NodeStatusEnabled, TRUE)

Next ==
    \/ \E k \in MainKeys : UpdateNodeState(SyncedNode(k))
    \/ \E k \in MainKeys, r \in MainResults : SpeedtestNode(k, r[1], r[2])
    \/ \E k \in MainKeys, st \in NodeStatuses : SetNodeStatus(k, st)
    \/ \E m \in PoolModes : SetMode(m)
    \/ RefreshNodes
    \/ \E f \in MainFilters : GetProxy(f, MaxCursor)
    \/ \E f \in ListFilters, n \in MainLimits : GetProxyList(f, n)
    \/ Respond

Spec == Init /\ [][Next]_vars

----------------------------------------------------------------------------
(* The registry alone: mutations and listings *)

StoreLevels  == LatencyLevels
StoreRegions == {"US", "JP", ""}
StoreSubs    == {"s1", "s2", ""}

NextStore ==
    \/ \E k \in NodeKeys : UpdateNodeState(SyncedNode(k))
    \/ \E k \in NodeKeys, r \in MainResults : SpeedtestNode(k, r[1], r[2])
    \/ \E k \in NodeKeys, st \in NodeStatuses : SetNodeStatus(k, st)
    \/ ListAvailableNodes
    \/ \E l \in StoreLevels : ListNodesByLatency(l)
    \/ \E r \in StoreRegions : ListNodesByRegion(r)
    \/ \E sub \in StoreSubs : ListNodesBySubscription(sub)
    \/ GetGroupedByLatency
    \/ GetGroupedByRegion
    \/ Respond

SpecStore == Init /\ [][NextStore]_vars

----------------------------------------------------------------------------
(* The registry alone: subscriptions, node records, thresholds and the data file *)

\* A node without a name, filed under its URI
UnnamedNode(uri) ==
    EnhancedNode("", uri, "", "", "", -1, CalculateLatencyLevel(-1), NodeStatusEnabled, TRUE)

RegistryNodes == {SyncedNode("A"), SyncedNode("D"), UnnamedNode("A"), UnnamedNode("D")}

RegistryKeys == {"A", "D"}

RegistryResults == {<<150, TRUE>>, <<400, FALSE>>}

RegistrySubscriptions ==
    {Subscription("", "beta", "http://beta", TRUE, ""),
     Subscription("s1", "alpha2", "http://alpha2", FALSE, "30m"),
     Subscription("s2", "gamma", "http://gamma", TRUE, "")}

\* Threshold pairs with LowThreshold <= MediumThreshold
ThresholdPairs ==
    {[LowThreshold |-> 100, MediumThreshold |-> 300],
     [LowThreshold |-> 200, MediumThreshold |-> 300],
     [LowThreshold |-> 0,   MediumThreshold |-> 300],
     [LowThreshold |-> 150, MediumThreshold |-> 150]}

\* Latencies on both sides of every threshold
ClassifiedLatencies == {-1, 0, 1, 100, 101, 150, 151, 200, 201, 300, 301}

InitRegistry ==
    Constructed({"", "data"}, BOOLEAN) /\ mode = PoolModeSequential /\ fallbackEnabled
    /\ apiKey = ""

NextRegistry ==
    \/ \E node \in RegistryNodes : UpdateNodeState(node)
    \/ \E k \in RegistryKeys, r \in RegistryResults : SpeedtestNode(k, r[1], r[2])
    \/ \E k \in RegistryKeys, st \in NodeStatuses : SetNodeStatus(k, st)
    \/ \E k \in RegistryKeys : GetNodeState(k)
    \/ \E cfg \in ThresholdPairs : SetLatencyConfig(cfg)
    \/ \E v \in ClassifiedLatencies : CallCalculateLatencyLevel(v)
    \/ \E sub \in RegistrySubscriptions : AddSubscription(sub)
    \/ \E sub \in RegistrySubscriptions : UpdateSubscription(sub)
    \/ \E id \in SubIDs : DeleteSubscription(id)
    \/ \E id \in SubIDs : GetSubscription(id)
    \/ Save
    \/ NewStore
    \/ Respond

SpecRegistry == InitRegistry /\ [][NextRegistry]_vars

----------------------------------------------------------------------------
(* The engine's statistics and access key *)

\* PoolStats as Stats fills it from the nodes recs: a count per latency level, per
\* region ("unknown" for none) and per subscription name ("manual" for none)
PoolStats(recs) ==
    LET RegionOf(n) == IF n.Region # "" THEN n.Region ELSE "unknown"
        SubOf(n)    == IF n.SubscriptionName # "" THEN n.SubscriptionName ELSE "manual"
        idx         == 1..Len(recs)
    IN  [TotalNodes     |-> Len(recs),
         Mode           |-> mode,
         ByLatency      |-> [l \in {recs[i].LatencyLevel : i \in idx} |->
                               Cardinality({i \in idx : recs[i].LatencyLevel = l})],
         ByRegion       |-> [r \in {RegionOf(recs[i]) : i \in idx} |->
                               Cardinality({i \in idx : RegionOf(recs[i]) = r})],
         BySubscription |-> [n \in {SubOf(recs[i]) : i \in idx} |->
                               Cardinality({i \in idx : SubOf(recs[i]) = n})]]

\* Stats counting the nodes the pool already holds
Stats_WithoutRefresh ==
    /\ Idle
    /\ seen' = NoRun
    /\ ret' = Answer("Stats", "", ErrNone, PoolStats(DerefAll(nodes)))
    /\ UNCHANGED <<storeVars, poolVars, refreshed, mutations, fileVars, lockVars>>

\* ProxyPool.Stats: RefreshNodes, then the counts over p.nodes
Stats ==
    \E order \in MapOrders :
        LET avail == ListAvailableNodesIn(order)
            recs  == [i \in 1..Len(avail) |-> nodeStates[avail[i]]]
        IN  /\ Idle
            /\ nodes' = [i \in 1..Len(avail) |-> SharedRef(avail[i])]
            /\ weights' = WeightTable(recs)
            /\ totalWeight' = WeightTotal(recs)
            /\ refreshed' = recs
            /\ seen' = NoRun
            /\ ret' = Answer("Stats", "", ErrNone, PoolStats(recs))
            /\ UNCHANGED <<storeVars, mode, currentIndex, fallbackEnabled, mutations,
                           fileVars, lockVars, apiKey>>

\* ProxyPool.SetAPIKey
SetAPIKey(key) ==
    /\ Idle
    /\ apiKey' = key
    /\ seen' = NoRun
    /\ ret' = NoRet
    /\ UNCHANGED <<storeVars, mode, nodes, weights, totalWeight, currentIndex,
                   fallbackEnabled, refreshed, mutations, fileVars, lockVars>>

\* ValidateAPIKey without the case of no configured key
ValidateAPIKey_AlwaysCompares(key) ==
    /\ Idle
    /\ seen' = NoRun
    /\ ret' = Answer("ValidateAPIKey", key, ErrNone, key = apiKey)
    /\ UNCHANGED <<storeVars, poolVars, refreshed, mutations, fileVars, lockVars>>

\* ProxyPool.ValidateAPIKey
ValidateAPIKey(key) ==
    /\ Idle
    /\ seen' = NoRun
    /\ ret' = Answer("ValidateAPIKey", key, ErrNone, IF apiKey = "" THEN TRUE ELSE key = apiKey)
    /\ UNCHANGED <<storeVars, poolVars, refreshed, mutations, fileVars, lockVars>>

\* Inputs: the nodes synced and tested (D has no region and no subscription name), the
\* keys configured, set and presented
EngineKeys    == {"A", "B", "D"}
EngineResults == {<<50, TRUE>>, <<400, FALSE>>}
APIKeys       == {"", "k1", "k2"}

\* NewProxyPool with cfg.APIKey empty or set
InitEngine ==
    /\ Constructed({"data"}, {FALSE})
    /\ mode = PoolModeSequential /\ fallbackEnabled
    /\ apiKey \in {"", "k1"}

NextEngine ==
    \/ \E k \in EngineKeys : UpdateNodeState(SyncedNode(k))
    \/ \E k \in EngineKeys, r \in EngineResults : SpeedtestNode(k, r[1], r[2])
    \/ \E k \in EngineKeys : SetNodeStatus(k, NodeStatusDisabled)
    \/ RefreshNodes
    \/ Stats
    \/ \E key \in APIKeys : SetAPIKey(key)
    \/ \E key \in APIKeys : ValidateAPIKey(key)
    \/ Respond

SpecEngine == InitEngine /\ [][NextEngine]_vars

----------------------------------------------------------------------------
(* Region detection *)

\* A label is the sequence of its characters: an ASCII character is itself, the regional
\* indicator symbol of letter X is "RI_X" (an emoji flag is two of them), any other
\* character is written by its code point.  strings.Contains on UTF-8 text matches at
\* character boundaries only, so it is the search for a subsequence of characters.
Contains(str, sub) ==
    \E i \in 0..(Len(str) - Len(sub)) : SubSeq(str, i + 1, i + Len(sub)) = sub

\* strings.ToLower on the characters labels are made of
UpperCase == <<"A", "B", "C", "D", "E", "F", "G", "H", "I", "J", "K", "L", "M",
               "N", "O", "P", "Q", "R", "S", "T", "U", "V", "W", "X", "Y", "Z">>
LowerCase == <<"a", "b", "c", "d", "e", "f", "g", "h", "i", "j", "k", "l", "m",
               "n", "o", "p", "q", "r", "s", "t", "u", "v", "w", "x", "y", "z">>
ToLower(str) ==
    [i \in 1..Len(str) |->
        IF \E j \in 1..26 : UpperCase[j] = str[i]
        THEN LowerCase[CHOOSE j \in 1..26 : UpperCase[j] = str[i]]
        ELSE str[i]]

\* regionPatterns: every keyword of the table, as its sequence of characters (a character
\* outside ASCII is written by its code point), with the code of its region
regionPatterns ==
    {[keyword |-> <<"h", "k">>, Code |-> "HK"],
     [keyword |-> <<"h", "o", "n", "g", "k", "o", "n", "g">>, Code |-> "HK"],
     [keyword |-> <<"h", "o", "n", "g", " ", "k", "o", "n", "g">>, Code |-> "HK"],
     [keyword |-> <<"U+9999", "U+6E2F">>, Code |-> "HK"],
     [keyword |-> <<"t", "w">>, Code |-> "TW"],
     [keyword |-> <<"t", "a", "i", "w", "a", "n">>, Code |-> "TW"],
     [keyword |-> <<"U+53F0", "U+6E7E">>, Code |-> "TW"],
     [keyword |-> <<"U+53F0", "U+7063">>, Code |-> "TW"],
     [keyword |-> <<"j", "p">>, Code |-> "JP"],
     [keyword |-> <<"j", "a", "p", "a", "n">>, Code |-> "JP"],
     [keyword |-> <<"U+65E5", "U+672C">>, Code |-> "JP"],
     [keyword |-> <<"U+4E1C", "U+4EAC">>, Code |-> "JP"],
     [keyword |-> <<"U+5927", "U+962A">>, Code |-> "JP"],
     [keyword |-> <<"k", "r">>, Code |-> "KR"],
     [keyword |-> <<"k", "o", "r", "e", "a">>, Code |-> "KR"],
     [keyword |-> <<"U+97E9", "U+56FD">>, Code |-> "KR"],
     [keyword |-> <<"U+97D3", "U+570B">>, Code |-> "KR"],
     [keyword |-> <<"U+9996", "U+5C14">>, Code |-> "KR"],
     [keyword |-> <<"c", "n">>, Code |-> "CN"],
     [keyword |-> <<"c", "h", "i", "n", "a">>, Code |-> "CN"],
     [keyword |-> <<"U+4E2D", "U+56FD">>, Code |-> "CN"],
     [keyword |-> <<"U+4E2D", "U+570B">>, Code |-> "CN"],
     [keyword |-> <<"U+4E0A", "U+6D77">>, Code |-> "CN"],
     [keyword |-> <<"U+5317", "U+4EAC">>, Code |-> "CN"],
     [keyword |-> <<"U+5E7F", "U+5DDE">>, Code |-> "CN"],
     [keyword |-> <<"U+6DF1", "U+5733">>, Code |-> "CN"],
     [keyword |-> <<"s", "g">>, Code |-> "SG"],
     [keyword |-> <<"s", "i", "n", "g", "a", "p", "o", "r", "e">>, Code |-> "SG"],
     [keyword |-> <<"U+65B0", "U+52A0", "U+5761">>, Code |-> "SG"],
     [keyword |-> <<"U+72EE", "U+57CE">>, Code |-> "SG"],
     [keyword |-> <<"m", "y">>, Code |-> "MY"],
     [keyword |-> <<"m", "a", "l", "a", "y", "s", "i", "a">>, Code |-> "MY"],
     [keyword |-> <<"U+9A6C", "U+6765", "U+897F", "U+4E9A">>, Code |-> "MY"],
     [keyword |-> <<"t", "h">>, Code |-> "TH"],
     [keyword |-> <<"t", "h", "a", "i", "l", "a", "n", "d">>, Code |-> "TH"],
     [keyword |-> <<"U+6CF0", "U+56FD">>, Code |-> "TH"],
     [keyword |-> <<"U+66FC", "U+8C37">>, Code |-> "TH"],
     [keyword |-> <<"v", "n">>, Code |-> "VN"],
     [keyword |-> <<"v", "i", "e", "t", "n", "a", "m">>, Code |-> "VN"],
     [keyword |-> <<"U+8D8A", "U+5357">>, Code |-> "VN"],
     [keyword |-> <<"p", "h">>, Code |-> "PH"],
     [keyword |-> <<"p", "h", "i", "l", "i", "p", "p", "i", "n", "e", "s">>, Code |-> "PH"],
     [keyword |-> <<"U+83F2", "U+5F8B", "U+5BBE">>, Code |-> "PH"],
     [keyword |-> <<"i", "d">>, Code |-> "ID"],
     [keyword |-> <<"i", "n", "d", "o", "n", "e", "s", "i", "a">>, Code |-> "ID"],
     [keyword |-> <<"U+5370", "U+5C3C">>, Code |-> "ID"],
     [keyword |-> <<"U+5370", "U+5EA6", "U+5C3C", "U+897F", "U+4E9A">>, Code |-> "ID"],
     [keyword |-> <<"u", "s">>, Code |-> "US"],
     [keyword |-> <<"u", "s", "a">>, Code |-> "US"],
     [keyword |-> <<"a", "m", "e", "r", "i", "c", "a">>, Code |-> "US"],
     [keyword |-> <<"U+7F8E", "U+56FD">>, Code |-> "US"],
     [keyword |-> <<"U+6D1B", "U+6749", "U+77F6">>, Code |-> "US"],
     [keyword |-> <<"U+7EBD", "U+7EA6">>, Code |-> "US"],
     [keyword |-> <<"U+897F", "U+96C5", "U+56FE">>, Code |-> "US"],
     [keyword |-> <<"U+5723", "U+4F55", "U+585E">>, Code |-> "US"],
     [keyword |-> <<"U+7845", "U+8C37">>, Code |-> "US"],
     [keyword |-> <<"U+8FBE", "U+62C9", "U+65AF">>, Code |-> "US"],
     [keyword |-> <<"U+829D", "U+52A0", "U+54E5">>, Code |-> "US"],
     [keyword |-> <<"c", "a">>, Code |-> "CA"],
     [keyword |-> <<"c", "a", "n", "a", "d", "a">>, Code |-> "CA"],
     [keyword |-> <<"U+52A0", "U+62FF", "U+5927">>, Code |-> "CA"],
     [keyword |-> <<"U+591A", "U+4F26", "U+591A">>, Code |-> "CA"],
     [keyword |-> <<"U+6E29", "U+54E5", "U+534E">>, Code |-> "CA"],
     [keyword |-> <<"u", "k">>, Code |-> "GB"],
     [keyword |-> <<"g", "b">>, Code |-> "GB"],
     [keyword |-> <<"e", "n", "g", "l", "a", "n", "d">>, Code |-> "GB"],
     [keyword |-> <<"b", "r", "i", "t", "a", "i", "n">>, Code |-> "GB"],
     [keyword |-> <<"U+82F1", "U+56FD">>, Code |-> "GB"],
     [keyword |-> <<"U+4F26", "U+6566">>, Code |-> "GB"],
     [keyword |-> <<"d", "e">>, Code |-> "DE"],
     [keyword |-> <<"g", "e", "r", "m", "a", "n", "y">>, Code |-> "DE"],
     [keyword |-> <<"U+5FB7", "U+56FD">>, Code |-> "DE"],
     [keyword |-> <<"U+6CD5", "U+5170", "U+514B", "U+798F">>, Code |-> "DE"],
     [keyword |-> <<"f", "r">>, Code |-> "FR"],
     [keyword |-> <<"f", "r", "a", "n", "c", "e">>, Code |-> "FR"],
     [keyword |-> <<"U+6CD5", "U+56FD">>, Code |-> "FR"],
     [keyword |-> <<"U+5DF4", "U+9ECE">>, Code |-> "FR"],
     [keyword |-> <<"n", "l">>, Code |-> "NL"],
     [keyword |-> <<"n", "e", "t", "h", "e", "r", "l", "a", "n", "d", "s">>, Code |-> "NL"],
     [keyword |-> <<"U+8377", "U+5170">>, Code |-> "NL"],
     [keyword |-> <<"U+963F", "U+59C6", "U+65AF", "U+7279", "U+4E39">>, Code |-> "NL"],
     [keyword |-> <<"r", "u">>, Code |-> "RU"],
     [keyword |-> <<"r", "u", "s", "s", "i", "a">>, Code |-> "RU"],
     [keyword |-> <<"U+4FC4", "U+7F57", "U+65AF">>, Code |-> "RU"],
     [keyword |-> <<"U+83AB", "U+65AF", "U+79D1">>, Code |-> "RU"],
     [keyword |-> <<"i", "t">>, Code |-> "IT"],
     [keyword |-> <<"i", "t", "a", "l", "y">>, Code |-> "IT"],
     [keyword |-> <<"U+610F", "U+5927", "U+5229">>, Code |-> "IT"],
     [keyword |-> <<"e", "s">>, Code |-> "ES"],
     [keyword |-> <<"s", "p", "a", "i", "n">>, Code |-> "ES"],
     [keyword |-> <<"U+897F", "U+73ED", "U+7259">>, Code |-> "ES"],
     [keyword |-> <<"c", "h">>, Code |-> "CH"],
     [keyword |-> <<"s", "w", "i", "t", "z", "e", "r", "l", "a", "n", "d">>, Code |-> "CH"],
     [keyword |-> <<"U+745E", "U+58EB">>, Code |-> "CH"],
     [keyword |-> <<"s", "e">>, Code |-> "SE"],
     [keyword |-> <<"s", "w", "e", "d", "e", "n">>, Code |-> "SE"],
     [keyword |-> <<"U+745E", "U+5178">>, Code |-> "SE"],
     [keyword |-> <<"f", "i">>, Code |-> "FI"],
     [keyword |-> <<"f", "i", "n", "l", "a", "n", "d">>, Code |-> "FI"],
     [keyword |-> <<"U+82AC", "U+5170">>, Code |-> "FI"],
     [keyword |-> <<"n", "o">>, Code |-> "NO"],
     [keyword |-> <<"n", "o", "r", "w", "a", "y">>, Code |-> "NO"],
     [keyword |-> <<"U+632A", "U+5A01">>, Code |-> "NO"],
     [keyword |-> <<"p", "l">>, Code |-> "PL"],
     [keyword |-> <<"p", "o", "l", "a", "n", "d">>, Code |-> "PL"],
     [keyword |-> <<"U+6CE2", "U+5170">>, Code |-> "PL"],
     [keyword |-> <<"t", "r">>, Code |-> "TR"],
     [keyword |-> <<"t", "u", "r", "k", "e", "y">>, Code |-> "TR"],
     [keyword |-> <<"U+571F", "U+8033", "U+5176">>, Code |-> "TR"],
     [keyword |-> <<"a", "u">>, Code |-> "AU"],
     [keyword |-> <<"a", "u", "s", "t", "r", "a", "l", "i", "a">>, Code |-> "AU"],
     [keyword |-> <<"U+6FB3", "U+5927", "U+5229", "U+4E9A">>, Code |-> "AU"],
     [keyword |-> <<"U+6089", "U+5C3C">>, Code |-> "AU"],
     [keyword |-> <<"U+58A8", "U+5C14", "U+672C">>, Code |-> "AU"],
     [keyword |-> <<"n", "z">>, Code |-> "NZ"],
     [keyword |-> <<"n", "e", "w", " ", "z", "e", "a", "l", "a", "n", "d">>, Code |-> "NZ"],
     [keyword |-> <<"n", "e", "w", "z", "e", "a", "l", "a", "n", "d">>, Code |-> "NZ"],
     [keyword |-> <<"U+65B0", "U+897F", "U+5170">>, Code |-> "NZ"],
     [keyword |-> <<"b", "r">>, Code |-> "BR"],
     [keyword |-> <<"b", "r", "a", "z", "i", "l">>, Code |-> "BR"],
     [keyword |-> <<"U+5DF4", "U+897F">>, Code |-> "BR"],
     [keyword |-> <<"a", "r">>, Code |-> "AR"],
     [keyword |-> <<"a", "r", "g", "e", "n", "t", "i", "n", "a">>, Code |-> "AR"],
     [keyword |-> <<"U+963F", "U+6839", "U+5EF7">>, Code |-> "AR"],
     [keyword |-> <<"a", "e">>, Code |-> "AE"],
     [keyword |-> <<"u", "a", "e">>, Code |-> "AE"],
     [keyword |-> <<"U+963F", "U+8054", "U+914B">>, Code |-> "AE"],
     [keyword |-> <<"U+8FEA", "U+62DC">>, Code |-> "AE"],
     [keyword |-> <<"i", "l">>, Code |-> "IL"],
     [keyword |-> <<"i", "s", "r", "a", "e", "l">>, Code |-> "IL"],
     [keyword |-> <<"U+4EE5", "U+8272", "U+5217">>, Code |-> "IL"],
     [keyword |-> <<"i", "n">>, Code |-> "IN"],
     [keyword |-> <<"i", "n", "d", "i", "a">>, Code |-> "IN"],
     [keyword |-> <<"U+5370", "U+5EA6">>, Code |-> "IN"]}

\* The region codes flagToRegion has a flag for; the flag of code XY is the pair of
\* regional indicators of X and Y
FlagCodes ==
    {"HK", "TW", "JP", "KR", "CN", "SG", "MY", "TH", "VN", "PH", "ID",
     "US", "CA", "GB", "DE", "FR", "NL", "RU", "IT", "ES", "CH", "SE",
     "FI", "NO", "PL", "TR", "AU", "NZ", "BR", "AR", "AE", "IL", "IN"}

\* The letters of a region code, A..Z by position
CodeLetters(code) ==
    CHOOSE pair \in (1..26) \X (1..26) :
        \E x, y \in {UpperCase[j] : j \in 1..26} :
            /\ UpperCase[pair[1]] = x /\ UpperCase[pair[2]] = y
            /\ code = x \o y

\* flagToRegion: the flag characters with the code of their region
flagToRegion ==
    {[flag |-> <<"RI_" \o UpperCase[CodeLetters(c)[1]], "RI_" \o UpperCase[CodeLetters(c)[2]]>>,
      Code |-> c] : c \in FlagCodes}

\* DetectRegion: the codes it can return for nodeName.  Both tables are Go maps, ranged
\* over in an order the runtime picks: of several flags (keywords) the label contains
\* any one can be the first found.
DetectRegion(nodeName) ==
    IF nodeName = <<>> THEN {""}
    ELSE LET byFlag    == {e.Code : e \in {f \in flagToRegion : Contains(nodeName, f.flag)}}
             byKeyword == {e.Code : e \in {k \in regionPatterns :
                                               Contains(ToLower(nodeName), k.keyword)}}
         IN  IF byFlag # {} THEN byFlag
             ELSE IF byKeyword # {} THEN byKeyword
             ELSE {""}

\* A call of DetectRegion, as syncNodesToStore makes for every configured node
CallDetectRegion(nodeName) ==
    /\ Idle
    /\ \E code \in DetectRegion(nodeName) : ret' = Answer("DetectRegion", nodeName, ErrNone, code)
    /\ seen' = NoRun
    /\ UNCHANGED <<storeVars, poolVars, refreshed, mutations, fileVars, lockVars>>

\* The parts node names are put together from: the flags of Japan, the United States
\* and Estonia (the last one not in flagToRegion), words, and the two characters of the
\* Chinese name of Tokyo
NameParts ==
    {<<"RI_J", "RI_P">>, <<"RI_U", "RI_S">>, <<"RI_E", "RI_E">>,
     <<" ", "N", "o", "d", "e", "-", "0", "1">>,
     <<"T", "o", "k", "y", "o", "-", "P", "r", "e", "m", "i", "u", "m">>,
     <<"g", "e", "n", "e", "r", "i", "c", "-", "n", "o", "d", "e">>,
     <<"U", "S">>,
     <<"U+4E1C", "U+4EAC">>,
     <<"-", "x", "1">>}

\* Parts per node name
MaxParts == 3

RECURSIVE NamesOf(_)
\* The names made of at most n parts
NamesOf(n) ==
    IF n = 0 THEN {<<>>}
    ELSE NamesOf(n - 1) \cup {a \o b : a \in NamesOf(n - 1), b \in NameParts}

InitRegion == Init /\ disk = NoFile /\ mode = PoolModeSequential /\ fallbackEnabled

NextRegion ==
    \/ \E nodeName \in NamesOf(MaxParts) : CallDetectRegion(nodeName)
    \/ Respond

SpecRegion == InitRegion /\ [][NextRegion]_vars

----------------------------------------------------------------------------
(* GET /api/proxy/get *)

\* strings.ToUpper on the region codes a request carries
ToUpper(str) == CASE str = "us" -> "US" [] str = "jp" -> "JP" [] OTHER -> str

\* The response of handleGetProxy: the HTTP status and, for 200, the node returned
Response(status, filter, err, node) ==
    [Returned("handleGetProxy", filter, 0, err, node, <<>>) EXCEPT !.arg = status]

\* handleGetProxy on a pool that never relaxes the filter
handleGetProxy_NoFallback(key, latency, region, sub) ==
    LET filter == Filter(latency, ToUpper(region), sub)
        list   == getFilteredNodes(filter)
    IN  /\ Idle
        /\ currentIndex < MaxCursor
        /\ seen' = NoRun
        /\ IF apiKey # "" /\ key # apiKey
           THEN /\ ret' = Response("401", filter, "Invalid API key", Absent)
                /\ UNCHANGED currentIndex
           ELSE IF Len(list) = 0
           THEN /\ ret' = Response("503", filter, ErrNoAvailableProxy, Absent)
                /\ UNCHANGED currentIndex
           ELSE \E e \in SelectByMode(list) :
                /\ ret' = Response("200", filter, ErrNone, Deref(e))
                /\ IF mode \in {PoolModeRandom, PoolModeLatencyFirst, PoolModeWeighted}
                   THEN UNCHANGED currentIndex
                   ELSE currentIndex' = currentIndex + 1
        /\ UNCHANGED <<storeVars, mode, nodes, weights, totalWeight, fallbackEnabled,
                       refreshed, mutations, fileVars, lockVars, apiKey>>

\* handleGetProxy: the key check, the filter from the query (region upper-cased),
\* ProxyPool.GetProxy, and the response
handleGetProxy(key, latency, region, sub) ==
    LET filter == Filter(latency, ToUpper(region), sub)
        list   == Candidates(filter)
    IN  /\ Idle
        /\ currentIndex < MaxCursor
        /\ seen' = NoRun
        /\ IF apiKey # "" /\ key # apiKey
           THEN /\ ret' = Response("401", filter, "Invalid API key", Absent)
                /\ UNCHANGED currentIndex
           ELSE IF Len(list) = 0
           THEN /\ ret' = Response("503", filter, ErrNoAvailableProxy, Absent)
                /\ UNCHANGED currentIndex
           ELSE \E e \in SelectByMode(list) :
                /\ ret' = Response("200", filter, ErrNone, Deref(e))
                /\ IF mode \in {PoolModeRandom, PoolModeLatencyFirst, PoolModeWeighted}
                   THEN UNCHANGED currentIndex
                   ELSE currentIndex' = currentIndex + 1
        /\ UNCHANGED <<storeVars, mode, nodes, weights, totalWeight, fallbackEnabled,
                       refreshed, mutations, fileVars, lockVars, apiKey>>

\* The query strings of the requests
QueryLatencies == {"", LatencyLevelLow, LatencyLevelMedium}
QueryRegions   == {"", "us"}

\* The pool as Run builds it: FallbackEnabled: true, the mode and the key of the
\* configuration
InitAPI ==
    /\ Constructed({"data"}, {FALSE})
    /\ fallbackEnabled
    /\ apiKey \in {"", "k1"}

NextAPI ==
    \/ \E k \in MainKeys, r \in MainResults : SpeedtestNode(k, r[1], r[2])
    \/ \E k \in MainKeys : SetNodeStatus(k, NodeStatusDisabled)
    \/ RefreshNodes
    \/ \E key \in {"", "k1"}, l \in QueryLatencies, r \in QueryRegions :
          handleGetProxy(key, l, r, "")
    \/ Respond

SpecAPI == InitAPI /\ [][NextAPI]_vars

----------------------------------------------------------------------------
(* The node-status request: SetNodeStatus, then RefreshNodes *)

\* handleNodeStatus for a well-formed request: Store.SetNodeStatus, 404 with the error
\* text when it returns an error, else ProxyPool.RefreshNodes and 200
handleNodeStatus(nodeName, status) ==
    /\ Idle /\ Mutation
    /\ seen' = NoRun
    /\ IF nodeStates[nodeName] = Absent
       THEN /\ ret' = Answer("handleNodeStatus", nodeName, ErrNodeNotFound, "404")
            /\ UNCHANGED <<nodeStates, disk, nodes, weights, totalWeight, refreshed>>
       ELSE /\ nodeStates' = [nodeStates EXCEPT ![nodeName].Status = status]
            /\ \E saved \in save(subscriptions, nodeStates', latencyConfig) :
                  /\ disk' = saved.disk
                  /\ IF saved.err # ErrNone
                     THEN /\ ret' = Answer("handleNodeStatus", nodeName, saved.err, "404")
                          /\ UNCHANGED <<nodes, weights, totalWeight, refreshed>>
                     ELSE \E order \in MapOrders :
                            LET Keep(k) == Selectable(nodeStates'[k])
                                avail   == SelectSeq(order, Keep)
                                recs    == [i \in 1..Len(avail) |-> nodeStates'[avail[i]]]
                            IN  /\ nodes' = [i \in 1..Len(avail) |-> SharedRef(avail[i])]
                                /\ weights' = WeightTable(recs)
                                /\ totalWeight' = WeightTotal(recs)
                                /\ refreshed' = recs
                                /\ ret' = Answer("handleNodeStatus", nodeName, ErrNone, "200")
    /\ UNCHANGED <<latencyConfig, mode, currentIndex, fallbackEnabled, apiKey, subscriptions,
                   dataDir, diskFaulty, lockVars>>

\* The store has loaded the data file with three tested nodes; the disk may fail
InitNodeStatus ==
    /\ Constructed({"data"}, BOOLEAN)
    /\ disk = SavedFile
    /\ fallbackEnabled
    /\ apiKey = ""

NextNodeStatus ==
    \/ \E k \in NodeKeys, st \in NodeStatuses : handleNodeStatus(k, st)
    \/ RefreshNodes
    \/ \E f \in ListFilters : GetProxy(f, MaxCursor)
    \/ \E f \in ListFilters : GetProxyList(f, 0)
    \/ Respond

SpecNodeStatus == InitNodeStatus /\ [][NextNodeStatus]_vars

----------------------------------------------------------------------------
(* Concurrent callers: every method is a series of lock operations and steps *)

\* goroutine t enters a method
Enter(t, c) ==
    /\ calls[t].op = "idle"
    /\ IF c.op \in MutatingOps THEN Mutation ELSE UNCHANGED mutations
    /\ c.op = "GetProxy" =>
          currentIndex + Cardinality({u \in Goroutines : calls[u].op = "GetProxy"}) < MaxCursor
    /\ calls' = [calls EXCEPT ![t] = c]
    /\ UNCHANGED <<storeVars, poolVars, refreshed, seen, ret, fileVars, storeMu, poolMu,
                   committed>>

\* mu.Lock(): the call is registered, new readers are kept out from now on
Lock(t) ==
    /\ Instruction(t) \in {"S.Lock", "P.Lock"}
    /\ CanStep(t)
    /\ IF Instruction(t) = "S.Lock"
       THEN storeMu' = [storeMu EXCEPT !.writer = t] /\ UNCHANGED poolMu
       ELSE poolMu' = [poolMu EXCEPT !.writer = t] /\ UNCHANGED storeMu
    /\ calls' = [calls EXCEPT ![t] = Advanced(@)]
    /\ UNCHANGED <<storeVars, poolVars, refreshed, seen, mutations, ret, fileVars, committed>>

\* mu.Lock() returns when the readers have left
Drain(t) ==
    /\ Instruction(t) \in {"S.Drain", "P.Drain"}
    /\ CanStep(t)
    /\ calls' = [calls EXCEPT ![t] = Advanced(@)]
    /\ UNCHANGED <<storeVars, poolVars, refreshed, seen, mutations, ret, fileVars, storeMu,
                   poolMu, committed>>

\* mu.Unlock(); a mutating Store method returns here
Unlock(t) ==
    /\ Instruction(t) \in {"S.Unlock", "P.Unlock"}
    /\ IF Instruction(t) = "S.Unlock"
       THEN /\ storeMu' = [storeMu EXCEPT !.writer = ""]
            /\ committed' = Applied(calls[t], committed)
            /\ UNCHANGED poolMu
       ELSE /\ poolMu' = [poolMu EXCEPT !.writer = ""]
            /\ UNCHANGED <<storeMu, committed, apiKey>>
    /\ calls' = [calls EXCEPT ![t] = Advanced(@)]
    /\ UNCHANGED <<storeVars, poolVars, refreshed, seen, mutations, ret, fileVars>>

\* mu.RLock()
RLock(t) ==
    /\ Instruction(t) \in {"S.RLock", "P.RLock"}
    /\ CanStep(t)
    /\ IF Instruction(t) = "S.RLock"
       THEN storeMu' = [storeMu EXCEPT !.readers = @ \cup {t}] /\ UNCHANGED poolMu
       ELSE poolMu' = [poolMu EXCEPT !.readers = @ \cup {t}] /\ UNCHANGED storeMu
    /\ calls' = [calls EXCEPT ![t] = Advanced(@)]
    /\ UNCHANGED <<storeVars, poolVars, refreshed, seen, mutations, ret, fileVars, committed>>

\* mu.RUnlock(); a reading method returns here
RUnlock(t) ==
    /\ Instruction(t) \in {"S.RUnlock", "P.RUnlock"}
    /\ IF Instruction(t) = "S.RUnlock"
       THEN storeMu' = [storeMu EXCEPT !.readers = @ \ {t}] /\ UNCHANGED poolMu
       ELSE poolMu' = [poolMu EXCEPT !.readers = @ \ {t}] /\ UNCHANGED storeMu
    \* runAutoSpeedtest goes on with the node only if GetNodeState found it
    /\ calls' = [calls EXCEPT ![t] =
                    IF @.op = "runAutoSpeedtest" /\ ~@.got.exists THEN NoCall ELSE Advanced(@)]
    /\ UNCHANGED <<storeVars, poolVars, refreshed, seen, mutations, ret, fileVars, committed>>

\* runAutoSpeedtest writes one field of the health-check result into the object
\* GetNodeState returned; Store.mu is not held
FieldWrite(t) ==
    /\ Instruction(t) \in {"w.Latency", "w.LatencyLevel", "w.Available"}
    /\ nodeStates' =
          [nodeStates EXCEPT ![calls[t].key] =
              CASE Instruction(t) = "w.Latency" -> [@ EXCEPT !.Latency = calls[t].latency]
                [] Instruction(t) = "w.LatencyLevel" ->
                      [@ EXCEPT !.LatencyLevel = CalculateLatencyLevel(calls[t].latency)]
                [] OTHER -> [@ EXCEPT !.Available = calls[t].available]]
    /\ calls' = [calls EXCEPT ![t] = Advanced(@)]
    /\ UNCHANGED <<latencyConfig, poolVars, refreshed, seen, mutations, ret, fileVars,
                   storeMu, poolMu, committed>>

\* The body of a mutating Store method up to save(): the lookup and the assignment
StoreMutate(t) ==
    /\ Instruction(t) = "S.mutate"
    /\ \E id \in (IF calls[t].op = "AddSubscription" /\ calls[t].sub.ID = ""
                  THEN GeneratedIDs ELSE {calls[t].sub.ID}) :
          LET mem == [subscriptions |-> subscriptions, nodeStates |-> nodeStates]
              c   == [calls[t] EXCEPT !.id = id, !.err = LookupError(calls[t], mem)]
              replaced == c.op = "UpdateNodeState"
              \* runAutoSpeedtest stores the object the map already holds
              after == IF c.op = "runAutoSpeedtest" THEN mem ELSE Applied(c, mem)
          IN  /\ subscriptions' = after.subscriptions
              /\ nodeStates' = after.nodeStates
              /\ nodes' = IF replaced THEN Detached(nodes, c.key) ELSE nodes
              /\ calls' = [u \in Goroutines |->
                             IF u = t THEN Advanced(c)
                             ELSE IF replaced
                                  THEN [calls[u] EXCEPT !.list = Detached(@, c.key)]
                                  ELSE calls[u]]
    /\ UNCHANGED <<latencyConfig, mode, weights, totalWeight, currentIndex, fallbackEnabled,
                   refreshed, seen, mutations, ret, dataDir, disk, diskFaulty, storeMu,
                   poolMu, committed, apiKey>>

\* return s.save() of a mutating Store method that found its key
StoreSave(t) ==
    /\ Instruction(t) = "S.save"
    /\ IF calls[t].err # ErrNone
       THEN /\ calls' = [calls EXCEPT ![t] = Advanced(@)]
            /\ UNCHANGED disk
       ELSE \E saved \in save(subscriptions, nodeStates, latencyConfig) :
              /\ disk' = saved.disk
              /\ calls' = [calls EXCEPT ![t] = Advanced([@ EXCEPT !.err = saved.err])]
    /\ UNCHANGED <<storeVars, poolVars, refreshed, seen, mutations, ret, subscriptions,
                   dataDir, diskFaulty, storeMu, poolMu, committed>>

\* The lookup of GetNodeState and GetSubscription, and what the entry found holds at
\* this point (the listing methods test the fields of the entries here; a caller of
\* GetNodeState reads them through the pointer later still)
StoreRead(t) ==
    /\ Instruction(t) = "S.read"
    /\ calls' = [calls EXCEPT ![t] =
                    Advanced([@ EXCEPT !.got =
                                 IF calls[t].op \in {"GetNodeState", "runAutoSpeedtest"}
                                 THEN GetNodeStateIn(nodeStates, calls[t].key)
                                 ELSE GetSubscriptionIn(subscriptions, calls[t].key)])]
    /\ UNCHANGED <<storeVars, poolVars, refreshed, seen, mutations, ret, fileVars, storeMu,
                   poolMu, committed>>

\* The loop of ListAvailableNodes, called by RefreshNodes. The order of the range plays
\* no part in the locking: one visiting order stands for all of them here
StoreList(t) ==
    /\ Instruction(t) = "S.list"
    /\ LET avail == ListAvailableNodesIn(CHOOSE order \in MapOrders : TRUE)
       IN  calls' = [calls EXCEPT ![t] =
                        Advanced([@ EXCEPT !.list =
                                     [i \in 1..Len(avail) |-> SharedRef(avail[i])]])]
    /\ UNCHANGED <<storeVars, poolVars, refreshed, seen, mutations, ret, fileVars, storeMu,
                   poolMu, committed>>

\* RefreshNodes after ListAvailableNodes has returned: p.nodes is assigned, updateWeights
PoolSwap(t) ==
    /\ Instruction(t) = "P.swap"
    /\ nodes' = calls[t].list
    /\ weights' = WeightTable(DerefAll(calls[t].list))
    /\ totalWeight' = WeightTotal(DerefAll(calls[t].list))
    /\ calls' = [calls EXCEPT ![t] = Advanced(@)]
    /\ UNCHANGED <<storeVars, mode, currentIndex, fallbackEnabled, refreshed, seen, mutations,
                   ret, fileVars, storeMu, poolMu, committed, apiKey>>

\* The body of GetProxy, GetProxyList, ValidateAPIKey and of Stats after its refresh:
\* reads of the pool; selectSequential adds one to the cursor
PoolRead(t) ==
    /\ Instruction(t) = "P.read"
    /\ currentIndex' =
          IF /\ calls[t].op = "GetProxy"
             /\ Len(Candidates(NilFilter)) > 0
             /\ mode \notin {PoolModeRandom, PoolModeLatencyFirst, PoolModeWeighted}
          THEN currentIndex + 1 ELSE currentIndex
    /\ calls' = [calls EXCEPT ![t] = Advanced(@)]
    /\ UNCHANGED <<storeVars, mode, nodes, weights, totalWeight, fallbackEnabled, refreshed,
                   seen, mutations, ret, fileVars, storeMu, poolMu, committed, apiKey>>

\* The calls of the engine's callers (handleGetProxy, handleListProxies, the pool
\* statistics handler, the refresh after a health check)
EngineCalls ==
    {Call(op, "", "", NoSub) : op \in {"RefreshNodes", "Stats", "GetProxy", "GetProxyList",
                                      "ValidateAPIKey"}}

\* The calls that change the registry
RegistryMutations ==
    {Call("SetNodeStatus", "A", NodeStatusDisabled, NoSub),
     Call("UpdateNodeState", "D", "", NoSub),
     [Call("runAutoSpeedtest", "A", "", NoSub) EXCEPT !.latency = 500, !.available = TRUE],
     Call("AddSubscription", "", "", Subscription("", "beta", "http://beta", TRUE, "")),
     Call("UpdateSubscription", "", "",
          Subscription("s1", "alpha2", "http://alpha2", FALSE, "30m")),
     Call("DeleteSubscription", "s1", "", NoSub)}

\* The calls each goroutine makes: t1 serves the engine's clients, t2 the readers of
\* the management API (handleNodeStatus among them: SetNodeStatus, then RefreshNodes),
\* t3 the writers of the management API and the health-check loop
ConcurrentCalls(t) ==
    CASE t = "t1" -> EngineCalls
      [] t = "t2" -> {Call("GetNodeState", "A", "", NoSub),
                      Call("GetSubscription", "s1", "", NoSub),
                      Call("SetNodeStatus", "A", NodeStatusDisabled, NoSub),
                      Call("RefreshNodes", "", "", NoSub)}
      [] OTHER    -> RegistryMutations

\* The store has loaded the data file with three tested nodes
InitLocks == Init /\ disk = SavedFile /\ mode = PoolModeSequential /\ fallbackEnabled

NextLocks ==
    \/ \E t \in Goroutines : \E c \in ConcurrentCalls(t) : Enter(t, c)
    \/ \E t \in Goroutines : Lock(t)
    \/ \E t \in Goroutines : Drain(t)
    \/ \E t \in Goroutines : Unlock(t)
    \/ \E t \in Goroutines : RLock(t)
    \/ \E t \in Goroutines : RUnlock(t)
    \/ \E t \in Goroutines : FieldWrite(t)
    \/ \E t \in Goroutines : StoreMutate(t)
    \/ \E t \in Goroutines : StoreSave(t)
    \/ \E t \in Goroutines : StoreRead(t)
    \/ \E t \in Goroutines : StoreList(t)
    \/ \E t \in Goroutines : PoolSwap(t)
    \/ \E t \in Goroutines : PoolRead(t)

SpecLocks == InitLocks /\ [][NextLocks]_vars

----------------------------------------------------------------------------
(* Sequential mode: a client issuing GetProxy requests one after the other *)

\* GetProxy calls explored in sequential mode (cap on ProxyPool.currentIndex)
MaxRun == 7

SeqFilters == {NilFilter, Filter("", "US", ""), Filter(LatencyLevelMedium, "", "")}

InitSeq == Init /\ mode = PoolModeSequential

NextSeq ==
    \/ \E k \in MainKeys, st \in NodeStatuses : SetNodeStatus(k, st)
    \/ RefreshNodes
    \/ \E f \in SeqFilters : GetProxy(f, MaxRun)
    \/ Collect

SpecSeq == InitSeq /\ [][NextSeq]_vars

----------------------------------------------------------------------------
(* Weighted mode: health checks move latencies across the weight steps *)

WeightedResults == {<<500, TRUE>>, <<501, TRUE>>, <<50, FALSE>>}

WeightedFilters == {NilFilter, Filter("", "US", "")}

InitWeighted == Init /\ mode = PoolModeWeighted

NextWeighted ==
    \/ \E k \in MainKeys : UpdateNodeState(SyncedNode(k))
    \/ \E k \in MainKeys, r \in WeightedResults : SpeedtestNode(k, r[1], r[2])
    \/ RefreshNodes
    \/ \E f \in WeightedFilters : GetProxy(f, MaxCursor)
    \/ Respond

SpecWeighted == InitWeighted /\ [][NextWeighted]_vars

----------------------------------------------------------------------------
(* Sequential mode under concurrent callers: the cursor *)

\* GetProxy calls that select a node (cap on ProxyPool.currentIndex)
MaxSelections == 4

\* No call in progress and no selection made yet: the snapshot is still being set up
Quiet == /\ \A t \in Goroutines : calls[t].op = "idle"
         /\ currentIndex = 0
         /\ seen = NoRun

\* goroutine t calls GetProxy(nil)
EnterGetProxy(t) ==
    /\ calls[t].op = "idle"
    /\ Idle
    /\ Len(seen.keys) + Cardinality({u \in Goroutines : calls[u].op # "idle"}) < MaxSelections
    /\ calls' = [calls EXCEPT ![t] = Call("GetProxy.sequential", "", "", NoSub)]
    /\ UNCHANGED <<storeVars, poolVars, refreshed, seen, mutations, ret, fileVars, storeMu,
                   poolMu, committed>>

\* nodes := p.getFilteredNodes(filter); with no node GetProxy returns
\* ErrNoAvailableProxy (the deferred RUnlock is its last instruction)
SelectFilter(t) ==
    /\ Instruction(t) = "P.filter"
    /\ calls' = [calls EXCEPT ![t] =
                    IF Len(Candidates(NilFilter)) = 0
                    THEN [@ EXCEPT !.err = ErrNoAvailableProxy, !.pc = Len(SelectProgram)]
                    ELSE Advanced([@ EXCEPT !.list = Candidates(NilFilter)])]
    /\ UNCHANGED <<storeVars, poolVars, refreshed, seen, mutations, ret, fileVars, storeMu,
                   poolMu, committed>>

\* A plain load of the cursor by a goroutine that races with another one's increment:
\* it can see the value the other goroutine saw
AtomicLoad_Plain(t) ==
    IF \E u \in Goroutines \ {t} : Instruction(u) = "P.index"
    THEN calls[CHOOSE u \in Goroutines \ {t} : Instruction(u) = "P.index"].got
    ELSE currentIndex

\* The value atomic.Int64.Add reads and adds to, in one indivisible step
AtomicLoad(t) == currentIndex

\* idx := p.currentIndex.Add(1) - 1
SelectAdd(t) ==
    /\ Instruction(t) = "P.Add"
    /\ currentIndex' = AtomicLoad(t) + 1
    /\ calls' = [calls EXCEPT ![t] = Advanced([@ EXCEPT !.got = AtomicLoad(t)])]
    /\ UNCHANGED <<storeVars, mode, nodes, weights, totalWeight, fallbackEnabled, apiKey,
                   refreshed, seen, mutations, ret, fileVars, storeMu, poolMu, committed>>

\* return nodes[idx%int64(len(nodes))]; the client notes the node it was given
SelectIndex(t) ==
    /\ Instruction(t) = "P.index"
    /\ seen' = [seen EXCEPT !.keys = Append(@, selectSequential(calls[t].list, calls[t].got).key)]
    /\ calls' = [calls EXCEPT ![t] = Advanced(@)]
    /\ UNCHANGED <<storeVars, poolVars, refreshed, mutations, ret, fileVars, storeMu, poolMu,
                   committed>>

InitCursor == Init /\ disk = SavedFile /\ mode = PoolModeSequential /\ fallbackEnabled

NextCursor ==
    \/ Quiet /\ \E k \in MainKeys : SetNodeStatus(k, NodeStatusDisabled)
    \/ Quiet /\ RefreshNodes
    \/ Quiet /\ Respond
    \/ \E t \in Goroutines : EnterGetProxy(t)
    \/ \E t \in Goroutines : RLock(t)
    \/ \E t \in Goroutines : SelectFilter(t)
    \/ \E t \in Goroutines : SelectAdd(t)
    \/ \E t \in Goroutines : SelectIndex(t)
    \/ \E t \in Goroutines : RUnlock(t)

SpecCursor == InitCursor /\ [][NextCursor]_vars

----------------------------------------------------------------------------
(* The toggle request under concurrent callers *)

\* The subscription the requests toggle
ToggledID == "s1"

\* goroutine t serves POST /api/subscriptions/s1/toggle
EnterToggle(t) ==
    /\ calls[t].op = "idle"
    /\ Mutation
    /\ calls' = [calls EXCEPT ![t] = Call("toggle", ToggledID, "", NoSub)]
    /\ UNCHANGED <<storeVars, poolVars, refreshed, seen, ret, fileVars, storeMu, poolMu,
                   committed>>

\* The read of sub.Enabled in sub.Enabled = !sub.Enabled
ToggleLoad(t) ==
    /\ Instruction(t) = "t.load"
    /\ calls' = [calls EXCEPT ![t] = Advanced([@ EXCEPT !.available =
                                                 subscriptions[calls[t].key].Enabled])]
    /\ UNCHANGED <<storeVars, poolVars, refreshed, seen, mutations, ret, fileVars, storeMu,
                   poolMu, committed>>

\* The write of sub.Enabled, into the object Store.subscriptions holds
ToggleStore(t) ==
    /\ Instruction(t) = "t.store"
    /\ subscriptions' = [subscriptions EXCEPT ![calls[t].key].Enabled = ~calls[t].available]
    /\ calls' = [calls EXCEPT ![t] = Advanced(@)]
    /\ UNCHANGED <<storeVars, poolVars, refreshed, seen, mutations, ret, dataDir, disk,
                   diskFaulty, storeMu, poolMu, committed>>

NextToggle ==
    \/ \E t \in Goroutines : EnterToggle(t)
    \/ \E t \in Goroutines : RLock(t)
    \/ \E t \in Goroutines : StoreRead(t)
    \/ \E t \in Goroutines : RUnlock(t)
    \/ \E t \in Goroutines : ToggleLoad(t)
    \/ \E t \in Goroutines : ToggleStore(t)
    \/ \E t \in Goroutines : Lock(t)
    \/ \E t \in Goroutines : Drain(t)
    \/ \E t \in Goroutines : StoreMutate(t)
    \/ \E t \in Goroutines : StoreSave(t)
    \/ \E t \in Goroutines : Unlock(t)

SpecToggle == InitLocks /\ [][NextToggle]_vars

----------------------------------------------------------------------------
(* The two latency classifications: the handler's and the store's *)

\* ProxyPoolHandler.classifyLatency
classifyLatency(ms) ==
    IF ms <= 0 THEN LatencyLevelUnknown
    ELSE IF ms <= 100 THEN LatencyLevelLow
    ELSE IF ms <= 300 THEN LatencyLevelMedium
    ELSE LatencyLevelHigh

\* h.classifyLatency(snap.LastLatencyMs) in the handlers
CallClassifyLatency(ms) ==
    /\ Idle
    /\ ret' = Answer("classifyLatency", ms, ErrNone, classifyLatency(ms))
    /\ UNCHANGED <<storeVars, poolVars, refreshed, seen, mutations, fileVars, lockVars>>

\* The largest latency classified
MaxLatency == 302

\* The latencies classified: negative, zero, and both sides of 100 and 300
HandlerLatencies == (0 - 2)..MaxLatency

NextClassify ==
    \/ \E ms \in HandlerLatencies : CallClassifyLatency(ms)
    \/ \E ms \in HandlerLatencies : CallCalculateLatencyLevel(ms)
    \/ Respond

SpecClassify == Init /\ [][NextClassify]_vars

----------------------------------------------------------------------------
(* Weights: health checks put latencies on both sides of every weight step *)

StepLatencies == {0, 50, 51, 100, 101, 200, 201, 300, 301, 500, 501}

WeightKeys == {"A", "B"}

InitWeights == Init /\ mode = PoolModeWeighted

NextWeights ==
    \/ \E k \in WeightKeys : UpdateNodeState(SyncedNode(k))
    \/ \E k \in WeightKeys, l \in StepLatencies : SpeedtestNode(k, l, TRUE)
    \/ RefreshNodes

SpecWeights == InitWeights /\ [][NextWeights]_vars

----------------------------------------------------------------------------
(* Weights of nodes without a name: the store files them under their URI,
   updateWeights files every weight under node.Name *)

NamelessLatencies == {50, 400}

InitNameless == Init /\ mode = PoolModeWeighted

NextNameless ==
    \/ \E node \in RegistryNodes : UpdateNodeState(node)
    \/ \E k \in RegistryKeys, l \in NamelessLatencies : SpeedtestNode(k, l, TRUE)
    \/ RefreshNodes
    \/ \E f \in WeightedFilters : GetProxy(f, MaxCursor)
    \/ Respond

SpecNameless == InitNameless /\ [][NextNameless]_vars

----------------------------------------------------------------------------
(* Latency-first mode: four nodes, known and unknown latencies, ties *)

LatencyFirstResults == {<<50, TRUE>>, <<400, TRUE>>, <<400, FALSE>>}

InitLatencyFirst == Init /\ mode = PoolModeLatencyFirst

NextLatencyFirst ==
    \/ \E k \in NodeKeys : UpdateNodeState(SyncedNode(k))
    \/ \E k \in NodeKeys, r \in LatencyFirstResults : SpeedtestNode(k, r[1], r[2])
    \/ RefreshNodes
    \/ \E f \in WeightedFilters : GetProxy(f, MaxCursor)
    \/ Respond

SpecLatencyFirst == InitLatencyFirst /\ [][NextLatencyFirst]_vars

----------------------------------------------------------------------------
(* What the calls returned *)

GotProxy  == ret.op = "GetProxy" /\ ret.err = ErrNone
NoProxy   == ret.op = "GetProxy" /\ ret.err = ErrNoAvailableProxy
GotList   == ret.op = "GetProxyList"

\* The nodes the last GetProxy / GetProxyList call returned, with the fields read on return
ReturnedNodes == IF GotProxy THEN {ret.node} ELSE IF GotList THEN Range(ret.list) ELSE {}

\* The fields the node of key k had when the last RefreshNodes read it
AtRefresh(k) == refreshed[CHOOSE i \in 1..Len(nodes) : nodes[i].key = k]

Barred(node) == node.Status \in {NodeStatusDisabled, NodeStatusBlacklisted}

----------------------------------------------------------------------------
(* C1 *)

\* C1 as stated: no GetProxy or GetProxyList call returns a node whose status, at the
\* time of the call, is disabled or blacklisted.
C1_NeverReturnsBarredNode == \A n \in ReturnedNodes : ~Barred(n)

\* C1, amended: every node GetProxy or GetProxyList returns was enabled (neither
\* disabled nor blacklisted) and available when the last RefreshNodes read the registry.
C1_ReturnedNodesWereSelectableAtRefresh ==
    \A n \in ReturnedNodes :
        /\ \E i \in 1..Len(nodes) : nodes[i].key = KeyOf(n)
        /\ ~Barred(AtRefresh(KeyOf(n)))
        /\ Selectable(AtRefresh(KeyOf(n)))

\* A call returned nodes while the registry held a disabled node that the last refresh
\* had left out of the snapshot
C1_Witness ==
    /\ ReturnedNodes # {}
    /\ \E k \in StoredKeys :
          /\ Barred(nodeStates[k])
          /\ \A i \in 1..Len(nodes) : nodes[i].key # k

----------------------------------------------------------------------------
(* C2 *)

ListOps  == {"ListAvailableNodes", "ListNodesByLatency", "ListNodesByRegion"}
GroupOps == {"GetGroupedByLatency", "GetGroupedByRegion"}

\* The nodes the last listing or grouping call of the Store returned
ListedNodes ==
    IF ret.op \in ListOps THEN Range(ret.list)
    ELSE IF ret.op \in GroupOps THEN UNION {Range(ret.groups[b]) : b \in DOMAIN ret.groups}
    ELSE {}

\* C2: ListAvailableNodes, ListNodesByLatency, ListNodesByRegion, GetGroupedByLatency and
\* GetGroupedByRegion return only nodes with status enabled and available = TRUE; no
\* disabled, blacklisted or unavailable node of the registry is among them.
C2_ListingsReturnOnlySelectableNodes ==
    /\ \A n \in ListedNodes : n.Status = NodeStatusEnabled /\ n.Available = TRUE
    /\ \A k \in StoredKeys :
          (Barred(nodeStates[k]) \/ ~nodeStates[k].Available) => nodeStates[k] \notin ListedNodes

\* A grouping returned nodes while the registry held a barred node and an unavailable one
C2_Witness ==
    /\ ret.op = "GetGroupedByRegion"
    /\ ListedNodes # {}
    /\ \E k \in StoredKeys : Barred(nodeStates[k])
    /\ \E k \in StoredKeys : ~Barred(nodeStates[k]) /\ ~nodeStates[k].Available

----------------------------------------------------------------------------
(* The filter and the fallback cascade as the specification words them, over field values *)

\* The first n entries of a list, all of them when n = 0
FirstN(list, n) == IF n > 0 /\ Len(list) > n THEN SubSeq(list, 1, n) ELSE list

\* The records matching a latency tier, a region and a subscription, each optional
MatchingRecords(recs, level, region, sub) ==
    LET Keep(r) == /\ level = "" \/ r.LatencyLevel = level
                   /\ region = "" \/ r.Region = region
                   /\ sub = "" \/ r.SubscriptionID = sub \/ r.SubscriptionName = sub
    IN  SelectSeq(recs, Keep)

\* The records matching a filter (all of them for the nil filter)
FilteredRecords(recs, f) == MatchingRecords(recs, f.LatencyLevel, f.Region, f.Subscription)

\* The relaxed set: low -> medium, then high; medium -> high; any other tier ->
\* no latency filter; region and subscription kept
RelaxedRecords(recs, f) ==
    LET With(level) == MatchingRecords(recs, level, f.Region, f.Subscription)
    IN  CASE f.LatencyLevel = LatencyLevelLow ->
                IF With(LatencyLevelMedium) # <<>> THEN With(LatencyLevelMedium)
                ELSE With(LatencyLevelHigh)
          [] f.LatencyLevel = LatencyLevelMedium -> With(LatencyLevelHigh)
          [] OTHER -> With("")

\* The set selectOne draws from, for a snapshot with the given field values
EligibleRecords(recs, f, fallback) ==
    IF FilteredRecords(recs, f) = <<>> /\ fallback THEN RelaxedRecords(recs, f)
    ELSE FilteredRecords(recs, f)

\* The snapshot with the field values its nodes have now
SnapshotNow == DerefAll(nodes)

----------------------------------------------------------------------------
(* C3 *)

\* C3 as stated: until the next RefreshNodes, what GetProxy and GetProxyList return is
\* fixed by the snapshot the last RefreshNodes took: the eligible nodes and the field
\* values of the nodes returned are those of that snapshot.
C3_ResultsDependOnlyOnLastRefresh ==
    /\ GotList  => ret.list = FirstN(FilteredRecords(refreshed, ret.filter), ret.limit)
    /\ GotProxy => ret.node \in Range(EligibleRecords(refreshed, ret.filter, fallbackEnabled))
    /\ NoProxy  => EligibleRecords(refreshed, ret.filter, fallbackEnabled) = <<>>

----------------------------------------------------------------------------
(* C4 *)

\* C4: with fallback enabled, GetProxy with latency = low on a snapshot with no low-tier
\* node but a medium-tier node matching the region and subscription filters returns a
\* medium-tier node and no error; on the snapshot {B: 150 ms, C: 400 ms} it returns B.
C4_LowFallsBackToMedium ==
    (/\ ret.op = "GetProxy"
     /\ fallbackEnabled
     /\ ~ret.filter.isNil
     /\ ret.filter.LatencyLevel = LatencyLevelLow
     /\ MatchingRecords(SnapshotNow, LatencyLevelLow,
                        ret.filter.Region, ret.filter.Subscription) = <<>>
     /\ MatchingRecords(SnapshotNow, LatencyLevelMedium,
                        ret.filter.Region, ret.filter.Subscription) # <<>>)
    => /\ ret.err = ErrNone
       /\ ret.node.LatencyLevel = LatencyLevelMedium
       /\ ({<<n.Name, n.Latency>> : n \in Range(SnapshotNow)} = {<<"B", 150>>, <<"C", 400>>}
             => ret.node.Name = "B")

\* GetProxy(latency = low) answered B from the snapshot {B: 150 ms, C: 400 ms}
C4_Witness ==
    /\ GotProxy
    /\ fallbackEnabled
    /\ ret.filter = Filter(LatencyLevelLow, "", "")
    /\ {<<n.Name, n.Latency>> : n \in Range(SnapshotNow)} = {<<"B", 150>>, <<"C", 400>>}
    /\ ret.node.Name = "B"

----------------------------------------------------------------------------
(* C5 *)

\* C5: every node GetProxy returns matches the region filter and the subscription
\* filter (by subscription id or by display name) given, with or without fallback.
C5_RegionAndSubscriptionKept ==
    GotProxy =>
        /\ ret.filter.Region = "" \/ ret.node.Region = ret.filter.Region
        /\ \/ ret.filter.Subscription = ""
           \/ ret.node.SubscriptionID = ret.filter.Subscription
           \/ ret.node.SubscriptionName = ret.filter.Subscription

\* The cascade was used (the node is not of the tier asked for) under a subscription
\* filter that a node of the snapshot does not match
C5_Witness ==
    /\ GotProxy
    /\ ret.filter = Filter(LatencyLevelLow, "", "alpha")
    /\ ret.node.LatencyLevel # LatencyLevelLow
    /\ ret.node.SubscriptionName = "alpha"
    /\ \E n \in Range(SnapshotNow) : n.SubscriptionName # "alpha"

----------------------------------------------------------------------------
(* C6 *)

\* C6: GetProxy fails with ErrNoAvailableProxy exactly when the filtered snapshot is
\* empty and either fallback is disabled or the relaxed set is empty too; otherwise it
\* returns a node of the filtered set, or of the relaxed set when the filtered set is
\* empty, never a nil node without error.  On an engine that has no snapshot every
\* GetProxy fails with ErrNoAvailableProxy.
C6_NoAvailableProxyExactly ==
    ret.op = "GetProxy" =>
        LET filtered == FilteredRecords(SnapshotNow, ret.filter)
            relaxed  == RelaxedRecords(SnapshotNow, ret.filter)
        IN  /\ ret.err \in {ErrNone, ErrNoAvailableProxy}
            /\ ret.err = ErrNoAvailableProxy
                  <=> (filtered = <<>> /\ (~fallbackEnabled \/ relaxed = <<>>))
            /\ ret.err = ErrNone =>
                  /\ ret.node # Absent
                  /\ ret.node \in (IF filtered # <<>> THEN Range(filtered) ELSE Range(relaxed))
            /\ nodes = <<>> => ret.err = ErrNoAvailableProxy

\* GetProxy failed with fallback disabled although the relaxed set held a node
C6_Witness ==
    /\ NoProxy
    /\ ~fallbackEnabled
    /\ RelaxedRecords(SnapshotNow, ret.filter) # <<>>

----------------------------------------------------------------------------
(* C10 *)

\* C10: GetProxyList(filter, limit) returns, in snapshot order, the first min(limit, m)
\* of the m snapshot nodes matching the filter when limit > 0 and all m when limit = 0,
\* with no fallback and no strategy, and leaves the rotation cursor (and the snapshot)
\* unchanged.
C10_ProxyListIsFilteredPrefix ==
    [][ret'.op = "GetProxyList" =>
          /\ ret'.list = IF ret'.limit = 0
                         THEN FilteredRecords(SnapshotNow, ret'.filter)
                         ELSE FirstN(FilteredRecords(SnapshotNow, ret'.filter), ret'.limit)
          /\ currentIndex' = currentIndex
          /\ nodes' = nodes]_vars

\* GetProxyList cut a longer match list to limit = 1 in sequential mode with the cursor
\* advanced, on an engine whose fallback cascade would have found more
C10_Witness ==
    /\ GotList
    /\ ret.limit = 1
    /\ Len(ret.list) = 1
    /\ Len(FilteredRecords(SnapshotNow, ret.filter)) >= 2
    /\ mode = PoolModeSequential
    /\ currentIndex = 1

----------------------------------------------------------------------------
(* C7 *)

\* C7: in sequential mode, consecutive GetProxy calls with one filter on a static
\* filtered list of n nodes, with no RefreshNodes in between, return the nodes in cyclic
\* list order, so n*k consecutive calls return each node exactly k times.
C7_SequentialRotationIsCyclic ==
    (mode = PoolModeSequential /\ seen.keys # <<>>) =>
        LET list   == EligibleRecords(SnapshotNow, seen.filter, fallbackEnabled)
            n      == Len(list)
            made  == Len(seen.keys)
            Pos(k) == CHOOSE i \in 1..n : list[i].Name = k
        IN  /\ n > 0
            /\ \A i \in 1..made : \E j \in 1..n : list[j].Name = seen.keys[i]
            /\ \A i \in 1..(made - 1) : Pos(seen.keys[i + 1]) = (Pos(seen.keys[i]) % n) + 1
            /\ made % n = 0 =>
                  \A j \in 1..n :
                     Cardinality({i \in 1..made : seen.keys[i] = list[j].Name}) = made \div n

\* Six consecutive calls on a list of three nodes
C7_Witness ==
    /\ mode = PoolModeSequential
    /\ Len(seen.keys) = 6
    /\ Len(EligibleRecords(SnapshotNow, seen.filter, fallbackEnabled)) = 3

----------------------------------------------------------------------------
(* C8 *)

\* The list the last GetProxy call drew from
DrawnList == Candidates(ret.filter)

\* A node's entry in the weight table, 1 for a node without an entry
TableWeight(e) == IF weights[e.key] = 0 THEN 1 ELSE weights[e.key]

\* The draw values below the interval of position i of the drawn list
WeightBefore(i) == SumSeq([j \in 1..(i - 1) |-> TableWeight(DrawnList[j])])

DrawValues == 0..(WeightBefore(Len(DrawnList) + 1) - 1)

\* The draw values that make selectWeighted return position i of the drawn list
DrawsSelecting(i) == {r \in DrawValues : selectWeightedAt(DrawnList, r) = DrawnList[i]}

\* Each draw value selects the node whose cumulative-weight interval contains it, so a
\* node is selected by as many draw values as its weight
DrawsFollowWeights ==
    /\ \E i \in 1..Len(DrawnList) : Deref(DrawnList[i]) = ret.node /\ DrawsSelecting(i) # {}
    /\ \A i \in 1..Len(DrawnList) :
          /\ DrawsSelecting(i) =
                {r \in DrawValues : WeightBefore(i) <= r /\ r < WeightBefore(i + 1)}
          /\ Cardinality(DrawsSelecting(i)) = TableWeight(DrawnList[i])

\* The drawn list is A and B, which had 50 ms and 500 ms when the weights were computed
DrawnFromAAndB ==
    /\ {DrawnList[i].key : i \in 1..Len(DrawnList)} = {"A", "B"}
    /\ AtRefresh("A").Latency = 50
    /\ AtRefresh("B").Latency = 500

\* The number of draw values selecting the node of key k
DrawsFor(k) ==
    Cardinality(UNION {DrawsSelecting(i) : i \in {j \in 1..Len(DrawnList) : DrawnList[j].key = k}})

\* C8 as stated: in weighted mode each draw value in [0, totalWeight) selects the node
\* whose cumulative-weight interval contains it, exactly weight(node) values per node,
\* and with A at 50 ms and B at 500 ms, 100 of the 105 draw values select A and 5 select B.
C8_DrawsFollowWeights_100Of105 ==
    (mode = PoolModeWeighted /\ GotProxy) =>
        /\ DrawsFollowWeights
        /\ DrawnFromAAndB =>
              Cardinality(DrawValues) = 105 /\ DrawsFor("A") = 100 /\ DrawsFor("B") = 5

\* C8, amended: in weighted mode each draw value in [0, totalWeight) selects the node
\* whose cumulative-weight interval contains it, exactly weight(node) values per node;
\* with A at 50 ms and B at 500 ms the weights are 100 and 15, so 100 of the 115 draw
\* values select A and 15 select B.
C8_DrawsFollowWeights_100Of115 ==
    (mode = PoolModeWeighted /\ GotProxy) =>
        /\ DrawsFollowWeights
        /\ DrawnFromAAndB =>
              Cardinality(DrawValues) = 115 /\ DrawsFor("A") = 100 /\ DrawsFor("B") = 15

\* A weighted draw over A (50 ms) and B (500 ms) that returned B
C8_Witness ==
    /\ mode = PoolModeWeighted
    /\ GotProxy
    /\ DrawnFromAAndB
    /\ ret.node.Name = "B"

----------------------------------------------------------------------------
(* C9 *)

\* a ranks strictly before b: known latency before unknown, lower latency first
RanksBefore(a, b) == a.Latency >= 0 /\ (b.Latency < 0 \/ a.Latency < b.Latency)

\* The filtered list the last GetProxy call chose from
ChosenFrom == EligibleRecords(SnapshotNow, ret.filter, fallbackEnabled)

\* C9: in latency-first mode GetProxy returns a node of the filtered list with fewer than
\* 3 filtered nodes ranked strictly before it (ascending latency, unknown latency last),
\* so a node of unknown latency is returned only when fewer than 3 filtered nodes have a
\* known latency.
C9_ReturnsOneOfThreeFastest ==
    (mode = PoolModeLatencyFirst /\ GotProxy) =>
        /\ \E i \in 1..Len(ChosenFrom) : ChosenFrom[i] = ret.node
        /\ Cardinality({i \in 1..Len(ChosenFrom) : RanksBefore(ChosenFrom[i], ret.node)}) < 3
        /\ ret.node.Latency < 0 =>
              Cardinality({i \in 1..Len(ChosenFrom) : ChosenFrom[i].Latency >= 0}) < 3

\* A choice among four filtered nodes, three of known latency and one of unknown latency
C9_Witness ==
    /\ mode = PoolModeLatencyFirst
    /\ GotProxy
    /\ Len(ChosenFrom) = 4
    /\ Cardinality({i \in 1..Len(ChosenFrom) : ChosenFrom[i].Latency >= 0}) = 3
    /\ ret.node.Latency >= 0

----------------------------------------------------------------------------
(* C11 *)

\* C11 as stated: in every reachable registry state each node's latency level is the
\* level CalculateLatencyLevel gives its latency under the current thresholds, also
\* after SetLatencyConfig.
C11_LevelFollowsLatencyAndThresholds ==
    \A k \in NodeKeys :
        nodeStates[k] # Absent =>
            nodeStates[k].LatencyLevel = ClassifyLatency(nodeStates[k].Latency, latencyConfig)

----------------------------------------------------------------------------
(* C12 *)

\* C12: for every latency v and thresholds lo <= md, CalculateLatencyLevel(v) is unknown
\* if v < 0, low if 0 <= v <= lo, medium if lo < v <= md and high if v > md; it answers
\* for every input and changes no state of the registry or the engine.
C12_ClassifyByThresholds ==
    [][ret'.op = "CalculateLatencyLevel" =>
          LET v  == ret'.arg
              lo == latencyConfig.LowThreshold
              md == latencyConfig.MediumThreshold
          IN  lo <= md =>
                /\ v < 0 => ret'.value = LatencyLevelUnknown
                /\ (0 <= v /\ v <= lo) => ret'.value = LatencyLevelLow
                /\ (0 <= v /\ lo < v /\ v <= md) => ret'.value = LatencyLevelMedium
                /\ (0 <= v /\ v > md) => ret'.value = LatencyLevelHigh
                /\ ret'.value \in LatencyLevels
                /\ UNCHANGED <<storeVars, poolVars, fileVars, lockVars>>]_vars

\* A latency just above a low threshold that is not the default one, classified medium
C12_Witness ==
    /\ ret.op = "CalculateLatencyLevel"
    /\ latencyConfig.LowThreshold = 200
    /\ ret.arg = 201
    /\ ret.value = LatencyLevelMedium

----------------------------------------------------------------------------
(* C15 *)

\* The registry in memory and its file
RegistryAndFile == <<subscriptions, nodeStates, latencyConfig, disk>>

\* C15: UpdateSubscription and DeleteSubscription with an unknown identifier fail with
\* ErrSubscriptionNotFound, SetNodeStatus with an unknown node key fails with
\* ErrNodeNotFound, and each leaves the registry unchanged in memory and on disk.
C15_UnknownKeyFailsWithoutMutation ==
    [][/\ (/\ ret'.op = "UpdateSubscription"
           /\ (ret'.arg.ID \notin SubIDs \/ subscriptions[ret'.arg.ID] = NoSub))
          => (ret'.err = ErrSubscriptionNotFound /\ UNCHANGED RegistryAndFile)
       /\ (ret'.op = "DeleteSubscription" /\ subscriptions[ret'.arg] = NoSub)
          => (ret'.err = ErrSubscriptionNotFound /\ UNCHANGED RegistryAndFile)
       /\ \A k \in NodeKeys, st \in NodeStatuses :
            (SetNodeStatus(k, st) /\ nodeStates[k] = Absent)
            => (ret'.err = ErrNodeNotFound /\ UNCHANGED RegistryAndFile)]_vars

\* SetNodeStatus on a key the registry does not hold, in a registry that holds others
C15_Witness ==
    /\ ret.op = "SetNodeStatus"
    /\ ret.err = ErrNodeNotFound
    /\ nodeStates["D"] = Absent
    /\ nodeStates["A"] # Absent
    /\ subscriptions["s1"] # NoSub

----------------------------------------------------------------------------
(* C16 *)

\* The calls that persist
SavingOps == {"AddSubscription", "UpdateSubscription", "DeleteSubscription", "SetNodeStatus"}

\* The file a successful write of the memory after the step leaves
FileOfMemoryAfter == FileOf(storeData(subscriptions', nodeStates', latencyConfig'))

\* C16: when the write fails during AddSubscription, UpdateSubscription,
\* DeleteSubscription or SetNodeStatus, the call returns the write error, the mutation
\* stays applied in memory where later reads find it, and the next save that succeeds
\* leaves a file equal to the memory.
C16_FailedSaveKeepsMutation ==
    [][/\ \* a write that did not leave the new document is reported
          (/\ ret'.op \in SavingOps /\ ret'.err \notin {ErrSubscriptionNotFound, ErrNodeNotFound}
           /\ dataDir # "" /\ disk' # FileOfMemoryAfter)
          => ret'.err = ErrWriteFile
       /\ \* the mutation stays in memory
          (ret'.op = "AddSubscription" /\ ret'.err = ErrWriteFile)
          => /\ GetSubscriptionIn(subscriptions', ret'.value.ID).err = ErrNone
             /\ GetSubscriptionIn(subscriptions', ret'.value.ID).sub.URL = ret'.arg.URL
       /\ (ret'.op = "UpdateSubscription" /\ ret'.err = ErrWriteFile)
          => GetSubscriptionIn(subscriptions', ret'.arg.ID).sub = ret'.arg
       /\ (ret'.op = "DeleteSubscription" /\ ret'.err = ErrWriteFile)
          => GetSubscriptionIn(subscriptions', ret'.arg).err = ErrSubscriptionNotFound
       /\ \A k \in NodeKeys, st \in NodeStatuses :
            (SetNodeStatus(k, st) /\ ret'.err = ErrWriteFile)
            => (GetNodeStateIn(nodeStates', k).exists
                /\ GetNodeStateIn(nodeStates', k).node.Status = st)
       /\ \* a save that succeeds reconciles the file with the memory
          (ret'.op \in SavingOps \cup {"Save"} /\ ret'.err = ErrNone /\ dataDir # "")
          => disk' = FileOfMemoryAfter]_vars

\* AddSubscription returned the write error: the subscription is in memory, the file
\* does not have it
C16_Witness ==
    /\ ret.op = "AddSubscription"
    /\ ret.err = ErrWriteFile
    /\ subscriptions[ret.value.ID] = ret.value
    /\ disk # FileOf(storeData(subscriptions, nodeStates, latencyConfig))

----------------------------------------------------------------------------
(* C17 *)

\* C17: AddSubscription of a subscription without identifier gives it a non-empty
\* identifier; GetSubscription with that identifier then returns a record with the
\* original URL and name, and with refresh interval "1h" when none was given; the
\* subscriptions stored under other identifiers are unchanged.
C17_AddThenGetRoundTrip ==
    [][(ret'.op = "AddSubscription" /\ ret'.arg.ID = "") =>
          LET id  == ret'.value.ID
              got == GetSubscriptionIn(subscriptions', id)
          IN  /\ id # ""
              /\ got.err = ErrNone
              /\ got.sub.ID = id
              /\ got.sub.URL = ret'.arg.URL
              /\ got.sub.Name = ret'.arg.Name
              /\ ret'.arg.RefreshInterval = "" => got.sub.RefreshInterval = "1h"
              /\ \A other \in SubIDs \ {id} : subscriptions'[other] = subscriptions[other]]_vars

\* A subscription added without identifier and interval next to the one already stored
C17_Witness ==
    /\ ret.op = "AddSubscription"
    /\ ret.arg.ID = ""
    /\ ret.arg.RefreshInterval = ""
    /\ ret.value.ID \in GeneratedIDs
    /\ subscriptions[ret.value.ID].RefreshInterval = "1h"
    /\ subscriptions["s1"] # NoSub

----------------------------------------------------------------------------
(* C18 *)

\* C18: DeleteSubscription of a stored identifier removes that subscription and nothing
\* else: the other subscriptions, all node records (those of the deleted subscription
\* too) and the thresholds stay as they were.
C18_DeleteRemovesOnlyTheSubscription ==
    [][(ret'.op = "DeleteSubscription" /\ subscriptions[ret'.arg] # NoSub) =>
          /\ subscriptions'[ret'.arg] = NoSub
          /\ \A other \in SubIDs \ {ret'.arg} : subscriptions'[other] = subscriptions[other]
          /\ UNCHANGED <<nodeStates, latencyConfig>>]_vars

\* Subscription s1 was deleted and its node A is still in the registry
C18_Witness ==
    /\ ret.op = "DeleteSubscription"
    /\ ret.arg = "s1"
    /\ ret.err = ErrNone
    /\ subscriptions["s1"] = NoSub
    /\ nodeStates["A"] # Absent
    /\ nodeStates["A"].SubscriptionID = "s1"

----------------------------------------------------------------------------
(* C19 *)

\* The number of entries of a node map
EntryCount(ns) == Cardinality({k \in NodeKeys : ns[k] # Absent})

----------------------------------------------------------------------------
(* C20 *)

InProgressMutations == {t \in Goroutines : calls[t].op \in MutatingOps}

\* The registry mem after the mutation goroutine u has in progress, if it has one
IfApplied(u, mem) == IF u \in InProgressMutations THEN Applied(calls[u], mem) ELSE mem

\* The registries made of whole mutations only: every mutation that has returned, and
\* any of the mutations in progress
WholeRegistries == {IfApplied(u, IfApplied(v, committed)) : u, v \in Goroutines}

\* A lookup by GetNodeState or GetSubscription has been made under the read lock
LookupDone(t) ==
    /\ calls[t].op \in {"GetNodeState", "GetSubscription"}
    /\ Instruction(t) = "S.RUnlock"

\* C13: what a registry read returns is the entry of a registry that holds every
\* mutation that returned before the read started and, of the mutations still in
\* progress, each one whole or not at all; no read sees part of a mutation.
C13_ReadsSeeWholeMutations ==
    \A t \in Goroutines :
       LookupDone(t) =>
          \E mem \in WholeRegistries :
             calls[t].got = IF calls[t].op = "GetNodeState"
                            THEN GetNodeStateIn(mem.nodeStates, calls[t].key)
                            ELSE GetSubscriptionIn(mem.subscriptions, calls[t].key)

\* Some call is in progress
SomeCallInProgress == \E t \in Goroutines : calls[t].op # "idle"

\* C14: whatever the interleaving of RefreshNodes, Stats, GetProxy, GetProxyList,
\* ValidateAPIKey and the registry reads and mutations, as long as a call is in progress
\* some call in progress can take its next step: the calls never all wait on ProxyPool.mu
\* and Store.mu.
C14_NoCrossComponentDeadlock == SomeCallInProgress => \E t \in Goroutines : CanStep(t)

\* C14 witness: RefreshNodes holds ProxyPool.mu and waits for the store's read lock,
\* which a writer inside the store holds exclusively, while a third call waits for
\* ProxyPool.mu.
C14_Witness ==
    \E r, w, g \in Goroutines :
       /\ calls[r].op = "RefreshNodes" /\ Instruction(r) = "S.RLock" /\ poolMu.writer = r
       /\ calls[w].op \in MutatingOps /\ storeMu.writer = w /\ Instruction(w) = "S.save"
       /\ Instruction(g) = "P.RLock"

\* C21: NewStore on a data directory without a document gives the empty registry with
\* the default thresholds and no error; on a document that does not parse it fails with
\* an error instead of giving a usable registry.
C21_MissingFileIsEmptyCorruptFileFails ==
    (ret.op = "NewStore" /\ dataDir # "") =>
        /\ disk = NoFile =>
              /\ ret.err = ErrNone
              /\ [subscriptions |-> subscriptions, nodeStates |-> nodeStates,
                  latencyConfig |-> latencyConfig] = NewStoreDefaults
        /\ loadError(disk) # ErrNone => ret.err # ErrNone

RECURSIVE CountSum(_)
\* The sum of the counts of a breakdown
CountSum(f) ==
    IF DOMAIN f = {} THEN 0
    ELSE LET k == CHOOSE x \in DOMAIN f : TRUE
         IN  f[k] + CountSum([x \in DOMAIN f \ {k} |-> f[x]])

\* C22: Stats first makes the registry's current selectable nodes the engine's
\* snapshot, then returns a total equal to the snapshot's size and three breakdowns (by
\* latency level, by region with no region counted as "unknown", by subscription with
\* no subscription counted as "manual") that each sum to the total.
C22_StatsRefreshesAndCountsSnapshot ==
    ret.op = "Stats" =>
        /\ {nodes[i].key : i \in 1..Len(nodes)} = {k \in NodeKeys : Selectable(nodeStates[k])}
        /\ Len(nodes) = Cardinality({k \in NodeKeys : Selectable(nodeStates[k])})
        /\ ret.value.TotalNodes = Len(nodes)
        /\ CountSum(ret.value.ByLatency) = ret.value.TotalNodes
        /\ CountSum(ret.value.ByRegion) = ret.value.TotalNodes
        /\ CountSum(ret.value.BySubscription) = ret.value.TotalNodes
        /\ "" \notin DOMAIN ret.value.ByRegion \cup DOMAIN ret.value.BySubscription
        /\ \A i \in 1..Len(nodes) :
              /\ Deref(nodes[i]).Region = "" => "unknown" \in DOMAIN ret.value.ByRegion
              /\ Deref(nodes[i]).SubscriptionName = "" =>
                    "manual" \in DOMAIN ret.value.BySubscription

\* C22 witness: Stats has counted a snapshot other than the one the pool held before,
\* with a node without region and subscription in it.
C22_Witness ==
    /\ ret.op = "Stats"
    /\ ret.value.TotalNodes = 2
    /\ "unknown" \in DOMAIN ret.value.ByRegion
    /\ "manual" \in DOMAIN ret.value.BySubscription
    /\ mutations = MaxMutations

\* C23: whatever keys have been set, ValidateAPIKey accepts every key while none is
\* configured and otherwise exactly the configured key.
C23_ValidateKeyMatchesConfiguredKey ==
    ret.op = "ValidateAPIKey" =>
        ret.value = (apiKey = "" \/ ret.arg = apiKey)

\* C23 witness: a key is rejected after the configured key was changed to another one.
C23_Witness ==
    /\ ret.op = "ValidateAPIKey"
    /\ ret.arg = "k1" /\ apiKey = "k2"
    /\ ret.value = FALSE

\* C24: a request GET /api/proxy/get?latency=low is answered with a node of the low
\* latency level or with an error, never with a node of another level.
C24_LatencyLowReturnsOnlyLowNodes ==
    (ret.op = "handleGetProxy" /\ ret.filter.LatencyLevel = LatencyLevelLow /\ ret.arg = "200")
        => ret.node.LatencyLevel = LatencyLevelLow

\* Whether a character is a regional indicator symbol
IsIndicator(c) == \E j \in 1..26 : c = "RI_" \o UpperCase[j]

RECURSIVE FlagGlyphs(_)
\* The emoji flags a label shows, in order: regional indicators pair up from the left
FlagGlyphs(label) ==
    IF Len(label) < 2 THEN <<>>
    ELSE IF IsIndicator(label[1]) /\ IsIndicator(label[2])
         THEN <<SubSeq(label, 1, 2)>> \o FlagGlyphs(SubSeq(label, 3, Len(label)))
         ELSE FlagGlyphs(Tail(label))

\* The flags of flagToRegion among them
KnownFlagGlyphs(label) ==
    LET Known(g) == \E f \in flagToRegion : f.flag = g IN SelectSeq(FlagGlyphs(label), Known)

\* The code flagToRegion gives for a flag
CodeOfFlag(g) == (CHOOSE f \in flagToRegion : f.flag = g).Code

\* C25: DetectRegion looks for flags before keywords: for a label showing exactly one
\* flag of flagToRegion it returns that flag's region whatever keywords the label
\* contains, and for the empty label it returns the empty region.
C25_OneKnownFlagDecides ==
    ret.op = "DetectRegion" =>
        /\ ret.arg = <<>> => ret.value = ""
        /\ Len(KnownFlagGlyphs(ret.arg)) = 1 =>
              ret.value = CodeOfFlag(KnownFlagGlyphs(ret.arg)[1])

\* C26: for a label without a flag DetectRegion returns the region of the country hint
\* in it and the empty region when there is none; "Tokyo-Premium" gives JP and
\* "generic-node" gives the empty region.
C26_HintDecidesWithoutFlag ==
    (ret.op = "DetectRegion" /\ FlagGlyphs(ret.arg) = <<>>) =>
        /\ ret.arg = <<"T", "o", "k", "y", "o", "-", "P", "r", "e", "m", "i", "u", "m">> => ret.value = "JP"
        /\ ret.arg = <<"g", "e", "n", "e", "r", "i", "c", "-", "n", "o", "d", "e">> => ret.value = ""
        /\ (\A k \in regionPatterns : ~Contains(ToLower(ret.arg), k.keyword)) => ret.value = ""
        /\ ret.value # "" =>
              \E k \in regionPatterns :
                 Contains(ToLower(ret.arg), k.keyword) /\ k.Code = ret.value

----------------------------------------------------------------------------
(* C27 *)

\* GetProxy answered a non-nil filter that no node of the snapshot matches, with the
\* fallback enabled
FellBack ==
    /\ ret.op = "GetProxy"
    /\ fallbackEnabled
    /\ ~ret.filter.isNil
    /\ FilteredRecords(SnapshotNow, ret.filter) = <<>>

\* C27: when the filtered set is empty and the fallback is enabled, the relaxed
\* candidate set is fixed by the tier asked for, region and subscription filters kept:
\* for low the medium-tier matches and, only if there are none, the high-tier matches
\* or the matches with no latency filter; for medium the high-tier matches only; for
\* any other tier the matches with no latency filter.  GetProxy answers a node of that
\* set, and ErrNoAvailableProxy exactly when the set is empty.
C27_CascadeFixedByTier ==
    FellBack =>
        LET With(level) == MatchingRecords(SnapshotNow, level, ret.filter.Region,
                                           ret.filter.Subscription)
            relaxed     == DerefAll(getFallbackNodes(ret.filter))
        IN  /\ IF ret.filter.LatencyLevel = LatencyLevelLow
               THEN IF With(LatencyLevelMedium) # <<>>
                    THEN relaxed = With(LatencyLevelMedium)
                    ELSE relaxed \in {With(LatencyLevelHigh), With("")}
               ELSE IF ret.filter.LatencyLevel = LatencyLevelMedium
               THEN relaxed = With(LatencyLevelHigh)
               ELSE relaxed = With("")
            /\ ret.err = ErrNone => ret.node \in Range(relaxed)
            /\ ret.err = ErrNoAvailableProxy <=> relaxed = <<>>

\* GetProxy(latency = medium) fell back on a snapshot with a low-tier and a high-tier
\* node and answered the high-tier one
C27_Witness ==
    /\ FellBack
    /\ ret.err = ErrNone
    /\ ret.filter.LatencyLevel = LatencyLevelMedium
    /\ ret.node.LatencyLevel = LatencyLevelHigh
    /\ \E n \in Range(SnapshotNow) : n.LatencyLevel = LatencyLevelLow

----------------------------------------------------------------------------
(* C29 *)

\* The weight the spec's table gives a latency
StepWeight(latencyMs) ==
    CASE latencyMs < 0                      -> 1
      [] 0 <= latencyMs /\ latencyMs <= 50  -> 100
      [] 50 < latencyMs /\ latencyMs <= 100 -> 80
      [] 100 < latencyMs /\ latencyMs <= 200 -> 50
      [] 200 < latencyMs /\ latencyMs <= 300 -> 30
      [] 300 < latencyMs /\ latencyMs <= 500 -> 15
      [] latencyMs > 500                    -> 5

\* The weight table holds the table's weight for every node of the snapshot it was
\* built from
WeightsFollowTable ==
    \A i \in 1..Len(refreshed) : weights[refreshed[i].Name] = StepWeight(refreshed[i].Latency)

\* C29 as stated: the weight is 1 for latency < 0, 100 for <= 50, 80 for <= 100, 50 for
\* <= 200, 30 for <= 300, 15 for <= 500 and 5 above, and for all latencies a <= b,
\* weight(a) >= weight(b).
C29_WeightMonotoneOverAllLatencies ==
    /\ WeightsFollowTable
    /\ \A i, j \in 1..Len(refreshed) :
          refreshed[i].Latency <= refreshed[j].Latency
              => weights[refreshed[i].Name] >= weights[refreshed[j].Name]

\* C29 amended: the weight follows the table, and it is non-increasing over measured
\* latencies: for all 0 <= a <= b, weight(a) >= weight(b); a negative (unmeasured)
\* latency has the least weight of all, 1.
C29_WeightMonotoneOverMeasuredLatencies ==
    /\ WeightsFollowTable
    /\ \A i, j \in 1..Len(refreshed) :
          /\ (0 <= refreshed[i].Latency /\ refreshed[i].Latency <= refreshed[j].Latency)
                => weights[refreshed[i].Name] >= weights[refreshed[j].Name]
          /\ refreshed[i].Latency < 0
                => /\ weights[refreshed[i].Name] = 1
                   /\ weights[refreshed[i].Name] <= weights[refreshed[j].Name]

\* The weight table was built from a snapshot with nodes measured at 200 ms and 201 ms,
\* on the two sides of a step
C29_Witness ==
    \E i, j \in 1..Len(refreshed) :
        /\ refreshed[i].Latency = 200 /\ weights[refreshed[i].Name] = 50
        /\ refreshed[j].Latency = 201 /\ weights[refreshed[j].Name] = 30

----------------------------------------------------------------------------
(* C30 *)

\* Goroutine r is inside RefreshNodes' call of Store.ListAvailableNodes
InRegistryRead(r) ==
    /\ calls[r].op \in {"RefreshNodes", "Stats"}
    /\ Instruction(r) \in {"S.RLock", "S.list", "S.RUnlock"}

\* C30: while RefreshNodes is calling the store's ListAvailableNodes it does not hold
\* ProxyPool.mu: the registry read completes before the engine lock is taken for the
\* swap, so no GetProxy waits for ProxyPool.mu during a registry read.
C30_EngineLockFreeDuringRegistryRead ==
    \A r \in Goroutines :
        InRegistryRead(r) =>
            /\ poolMu.writer # r
            /\ \A g \in Goroutines :
                  (calls[g].op = "GetProxy" /\ Instruction(g) = "P.RLock") => CanStep(g)

----------------------------------------------------------------------------
(* C28 *)

\* The calls that hold a cursor value and have not returned their node yet
Indexing == {t \in Goroutines : Instruction(t) = "P.index"}

\* How many times node k was returned, the calls about to return it counted in
TimesPicked(k) ==
    Cardinality({i \in 1..Len(seen.keys) : seen.keys[i] = k})
      + Cardinality({t \in Indexing : selectSequential(calls[t].list, calls[t].got).key = k})

\* C28: concurrent GetProxy calls in sequential mode each obtain a distinct cursor
\* value, and the cursor has advanced by exactly the number of selections made: the
\* values 0 .. currentIndex - 1 were each used once, so when N selections over a static
\* list of n nodes have returned and n divides N, every node was returned N/n times.
C28_CursorValuesDistinctAndDense ==
    /\ \A t, u \in Indexing : t # u => calls[t].got # calls[u].got
    /\ \A t \in Indexing : calls[t].got < currentIndex
    /\ currentIndex = Len(seen.keys) + Cardinality(Indexing)
    /\ \A e \in Range(nodes) :
          TimesPicked(e.key) =
             Cardinality({i \in 0..(currentIndex - 1) : selectSequential(nodes, i) = e})
    /\ (/\ \A t \in Goroutines : calls[t].op = "idle"
        /\ Len(nodes) > 0
        /\ Len(seen.keys) % Len(nodes) = 0)
       => \A e \in Range(nodes) : TimesPicked(e.key) = Len(seen.keys) \div Len(nodes)

\* Four selections over two nodes have returned, each node twice, and the first node
\* returned is not the first of the list: the calls overlapped
C28_Witness ==
    /\ \A t \in Goroutines : calls[t].op = "idle"
    /\ Len(nodes) = 2
    /\ Len(seen.keys) = 4
    /\ currentIndex = 4
    /\ \A e \in Range(nodes) : TimesPicked(e.key) = 2
    /\ seen.keys[1] = nodes[2].key

----------------------------------------------------------------------------
(* C31 *)

\* Goroutine w is about to write a field of the node object filed under k: a field of
\* the health-check result in runAutoSpeedtest, or node.Status in SetNodeStatus
WritesNode(w, k) ==
    /\ calls[w].key = k
    /\ \/ Instruction(w) \in {"w.Latency", "w.LatencyLevel", "w.Available"}
       \/ calls[w].op = "SetNodeStatus" /\ Instruction(w) = "S.mutate"

\* Goroutine r is inside GetProxy, GetProxyList or Stats, reading the snapshot's nodes
\* under ProxyPool.mu's read lock
ReadsSnapshot(r) ==
    /\ calls[r].op \in {"GetProxy", "GetProxyList", "Stats"}
    /\ Instruction(r) = "P.read"

\* The snapshot holds a reference to the object the store files under k
InSnapshot(k) == \E i \in 1..Len(nodes) : nodes[i].shared /\ nodes[i].key = k

\* C31: no node object the engine snapshot refers to is written, by SetNodeStatus or by
\* a health-check update, while a concurrent GetProxy, GetProxyList or Stats may be
\* reading it.
C31_SnapshotNodesNotWrittenDuringReads ==
    \A w, r \in Goroutines, k \in NodeKeys :
        ~(w # r /\ WritesNode(w, k) /\ InSnapshot(k) /\ ReadsSnapshot(r))

----------------------------------------------------------------------------
(* C32 *)

\* C32: on a store with a data directory, whenever AddSubscription, UpdateSubscription,
\* DeleteSubscription, SetNodeStatus or Save returns no error, store.json holds the
\* document of the whole memory at that moment: the subscriptions, the node records
\* (those UpdateNodeState put in memory earlier included) and the thresholds.
C32_SuccessMeansFileEqualsMemory ==
    (/\ ret.op \in {"AddSubscription", "UpdateSubscription", "DeleteSubscription",
                    "SetNodeStatus", "Save"}
     /\ ret.err = ErrNone
     /\ dataDir # "")
    => disk = FileOf(storeData(subscriptions, nodeStates, latencyConfig))

\* AddSubscription succeeded after UpdateNodeState had put node D in memory only: the
\* file now holds D
C32_Witness ==
    /\ ret.op = "AddSubscription"
    /\ ret.err = ErrNone
    /\ dataDir # ""
    /\ nodeStates["D"] # Absent
    /\ disk.state = "written"
    /\ "D" \in DOMAIN disk.doc.node_states
    /\ ret.value.ID \in DOMAIN disk.doc.subscriptions

----------------------------------------------------------------------------
(* C33 *)

\* C33: UpdateNodeState changes only the entry of the node's key in memory: store.json,
\* the subscriptions and the thresholds are as before; the file changes only in a step
\* of a persisting call (AddSubscription, UpdateSubscription, DeleteSubscription,
\* SetNodeStatus, Save), so the new node state reaches it no earlier.
C33_UpsertIsInMemoryOnly ==
    [][/\ \A n \in RegistryNodes :
            UpdateNodeState(n) =>
               /\ disk' = disk
               /\ subscriptions' = subscriptions
               /\ latencyConfig' = latencyConfig
               /\ nodeStates'[KeyOf(n)] = n
               /\ \A other \in NodeKeys \ {KeyOf(n)} : nodeStates'[other] = nodeStates[other]
       /\ disk' # disk =>
             ret'.op \in {"AddSubscription", "UpdateSubscription", "DeleteSubscription",
                          "SetNodeStatus", "Save"}]_vars

\* Node D is in memory as UpdateNodeState stored it and the document on disk, written
\* before, does not hold it
C33_Witness ==
    /\ dataDir # ""
    /\ nodeStates["D"] = SyncedNode("D")
    /\ disk.state = "written"
    /\ "D" \notin DOMAIN disk.doc.node_states

----------------------------------------------------------------------------
(* C34 *)

\* C34: ListNodesBySubscription(id) returns exactly the nodes of subscription id whose
\* status is enabled, each once, those with Available = FALSE included;
\* ListNodesByLatency, ListNodesByRegion and ListAvailableNodes never return an
\* unavailable node.
C34_SubscriptionListingIgnoresAvailability ==
    /\ ret.op = "ListNodesBySubscription" =>
          /\ Range(ret.list) = {nodeStates[k] : k \in {x \in StoredKeys :
                                   /\ nodeStates[x].SubscriptionID = ret.arg
                                   /\ nodeStates[x].Status = NodeStatusEnabled}}
          /\ Cardinality(Range(ret.list)) = Len(ret.list)
    /\ ret.op \in ListOps => \A n \in Range(ret.list) : n.Available

\* ListNodesBySubscription returned a node that is enabled and not available, which
\* ListAvailableNodes would leave out
C34_Witness ==
    /\ ret.op = "ListNodesBySubscription"
    /\ \E n \in Range(ret.list) : ~n.Available /\ n.Status = NodeStatusEnabled
    /\ \E n \in Range(ret.list) : n.Available

----------------------------------------------------------------------------
(* C35 *)

\* The bucket a grouping method is to file a node under
BucketOf(op, n) ==
    IF op = "GetGroupedByLatency" THEN n.LatencyLevel
    ELSE IF n.Region = "" THEN "unknown" ELSE n.Region

\* How many times the node n occurs in bucket b of the answer
TimesIn(b, n) == Cardinality({i \in 1..Len(ret.groups[b]) : ret.groups[b][i] = n})

\* C35: GetGroupedByLatency and GetGroupedByRegion partition the selectable nodes: every
\* node ListAvailableNodes returns is in exactly one bucket, once, the bucket of its
\* level or of its region ("unknown" for the empty region); no other node is in a
\* bucket; no bucket is empty.
C35_GroupingsPartitionSelectableNodes ==
    ret.op \in GroupOps =>
        /\ \A k \in StoredKeys :
              Selectable(nodeStates[k]) =>
                 /\ BucketOf(ret.op, nodeStates[k]) \in DOMAIN ret.groups
                 /\ \A b \in DOMAIN ret.groups :
                       TimesIn(b, nodeStates[k]) =
                          IF b = BucketOf(ret.op, nodeStates[k]) THEN 1 ELSE 0
        /\ \A b \in DOMAIN ret.groups :
              /\ Len(ret.groups[b]) > 0
              /\ \A n \in Range(ret.groups[b]) :
                    \E k \in StoredKeys : nodeStates[k] = n /\ Selectable(n)

\* GetGroupedByRegion answered with the bucket "unknown" and a bucket of a region, while
\* the registry holds a node that is not selectable
C35_Witness ==
    /\ ret.op = "GetGroupedByRegion"
    /\ "unknown" \in DOMAIN ret.groups
    /\ Cardinality(DOMAIN ret.groups) >= 2
    /\ \E k \in StoredKeys : ~Selectable(nodeStates[k])

----------------------------------------------------------------------------
(* C36 *)

\* C36: GetProxy leaves the snapshot (its nodes and their order), the weight table, the
\* mode, the API key and the fallback flag unchanged in every mode; it advances
\* currentIndex by exactly 1 in sequential mode when it returns a node and leaves it
\* unchanged in the other modes and when it fails with ErrNoAvailableProxy.
C36_GetProxyChangesOnlyTheCursor ==
    [][(ret = NoRet /\ ret'.op = "GetProxy") =>
          /\ nodes' = nodes
          /\ SnapshotNow' = SnapshotNow
          /\ weights' = weights
          /\ totalWeight' = totalWeight
          /\ mode' = mode
          /\ apiKey' = apiKey
          /\ fallbackEnabled' = fallbackEnabled
          /\ currentIndex' = IF mode = PoolModeSequential /\ ret'.err = ErrNone
                             THEN currentIndex + 1
                             ELSE currentIndex]_vars

\* GetProxy in latency-first mode returned the second node of the snapshot, faster than
\* the first one: the snapshot is in the order of the refresh and the cursor is at 0
C36_Witness ==
    /\ GotProxy
    /\ mode = PoolModeLatencyFirst
    /\ currentIndex = 0
    /\ Len(nodes) >= 2
    /\ ret.node = Deref(nodes[2])
    /\ Deref(nodes[1]).Latency > ret.node.Latency
    /\ ret.node.Latency >= 0

----------------------------------------------------------------------------
(* C37 *)

\* C37: once handleNodeStatus has applied disabled or blacklisted to a known node, the
\* snapshot does not hold that node and neither GetProxy nor GetProxyList returns it
\* until it is enabled again and RefreshNodes runs, also when SetNodeStatus changed the
\* status in memory and returned a write error.  The handler is the only writer of the
\* status here, so a node that is disabled or blacklisted now was made so by it.
C37_BarredNodeLeavesTheSnapshot ==
    /\ \A i \in 1..Len(nodes) : ~Barred(Deref(nodes[i]))
    /\ \A n \in ReturnedNodes : ~Barred(n)

----------------------------------------------------------------------------
(* C38 *)

\* C38: the toggle request is an involution under any interleaving: when two toggle
\* requests for one subscription have completed, one after the other or concurrently,
\* its Enabled flag has the value it had before them.
C38_TwoTogglesRestoreTheFlag ==
    (/\ \A t \in Goroutines : calls[t].op = "idle"
     /\ mutations % 2 = 0)
    => subscriptions[ToggledID].Enabled = SavedSubscriptions[ToggledID].Enabled

----------------------------------------------------------------------------
(* C39 *)

\* C39: for every latency the handler's classifyLatency returns the level the store's
\* CalculateLatencyLevel returns under the default thresholds 100 and 300.
C39_HandlerClassifiesAsTheStore ==
    ret.op = "classifyLatency" =>
        /\ latencyConfig = NewStoreDefaults.latencyConfig
        /\ ret.value = CalculateLatencyLevel(ret.arg)

----------------------------------------------------------------------------
(* C40 *)

\* The names that have an entry in the weight table
TableEntries == {nm \in NodeNames : weights[nm] # 0}

RECURSIVE TableSum(_)
\* The sum of the weight table's entries under the names in S
TableSum(S) ==
    IF S = {} THEN 0
    ELSE LET nm == CHOOSE x \in S : TRUE IN weights[nm] + TableSum(S \ {nm})

\* C40: after every RefreshNodes the weight table holds exactly one entry per snapshot
\* node, each equal to calculateWeight of that node's latency at refresh time, and
\* totalWeight is the sum of the table's entries.
C40_OneWeightPerSnapshotNode ==
    /\ Cardinality(TableEntries) = Len(nodes)
    /\ \A i \in 1..Len(refreshed) :
          weights[refreshed[i].Name] = calculateWeight(refreshed[i].Latency)
    /\ totalWeight = TableSum(TableEntries)

====
